---- MODULE Spec2Model ----
(***************************************************************************)
(* A model of the lox tree-walking interpreter: the scanner                *)
(* (src/src/scanner.rs), the recursive-descent parser (src/src/parser.rs), *)
(* the environment chain (src/src/environment.rs), the evaluator           *)
(* (src/src/interpreter.rs, src/src/token.rs) and the driver               *)
(* (src/src/lox.rs).                                                       *)
(*                                                                         *)
(* Source text is a sequence of one-character strings.  Environment nodes  *)
(* (Rc<RefCell<EnvironmentValues>>) live in a heap, a sequence of records; *)
(* an Environment handle is the index of its head node, and 0 is None.     *)
(* Numbers are exact rationals extended with inf and NaN.                   *)
(***************************************************************************)
EXTENDS Integers, Sequences, FiniteSets, TLC

VARIABLES
    \* ---- the interpreter session (Spec) ----
    mode,        \* "start", "repl", "exited", "panicked", "exhausted"; "env"
    heap,        \* the environment nodes allocated so far
    globals,     \* Interpreter.globals (head node)
    environment, \* Interpreter.environment (head node)
    out,         \* lines written to standard output by the last run
    diag,        \* diagnostics written to standard error by the last run
    trace,       \* what the evaluator did during the last run
    last,        \* the source and the result of the last Lox::run
    nlines,      \* number of inputs run so far
    \* ---- the environment exercised directly (EnvSpec) ----
    eheap,       \* the environment nodes
    holders,     \* the Environment handles in existence (head nodes)
    origin,      \* how each handle was made
    lastOp,      \* the last operation and its result
    \* ---- the scanner and the parser applied to a text (FrontSpec) ----
    input,       \* the source text (in MainSpec: the script or the line read)
    scanned,     \* what scanning it gave
    parsed,      \* what parsing its tokens gave
    \* ---- the process started by main (MainSpec) ----
    running,     \* "start", "prompt", "exited"
    stdout,      \* lines written to standard output
    exit_code,   \* the ExitCode returned by main, -1 while it runs
    \* ---- the parser applied to a token list (TokenSpec) ----
    given,       \* the token list handed to Parser::new
    synced       \* a parser before and after synchronize()

vars == <<mode, heap, globals, environment, out, diag, trace, last, nlines,
          eheap, holders, origin, lastOp, input, scanned, parsed,
          running, stdout, exit_code, given, synced>>

svars == <<mode, heap, globals, environment, out, diag, trace, last, nlines>>
evars == <<eheap, holders, origin, lastOp>>
fvars == <<input, scanned, parsed>>
mvars == <<running, stdout, exit_code>>
tvars == <<given, synced>>

(***************************************************************************)
(* Bounds                                                                  *)
(***************************************************************************)
MaxLines == 2      \* inputs per session
MaxFuel == 12     \* loop iterations and calls per run
MaxNodes == 2      \* EnvSpec: environment nodes
MaxHolders == 3      \* EnvSpec: Environment handles
MaxText == 3      \* FrontSpec: characters of a source text
MaxTokens == 3      \* TokenSpec: tokens of a list before its Eof

(***************************************************************************)
(* Values (token.rs Literal) and tokens (token.rs Token)                   *)
(***************************************************************************)
LNone == [t |-> "nil"]
LBool(b) == [t |-> "bool", v |-> b]

\* Number(f64): the rational n/d in lowest terms with d > 0; d = 0 is
\* +inf (n = 1), -inf (n = -1) or NaN (n = 0).  Rounding is not modelled.
Abs(x) == IF x < 0 THEN -x ELSE x
Sign(x) == IF x < 0 THEN -1 ELSE IF x > 0 THEN 1 ELSE 0

RECURSIVE GCD(_, _)
GCD(a, b) == IF b = 0 THEN a ELSE GCD(b, a % b)

Ratio(n, d) ==
    IF d = 0 THEN [t |-> "num", n |-> Sign(n), d |-> 0]
    ELSE LET g == GCD(Abs(n), Abs(d))
         IN [t |-> "num", n |-> (Sign(d) * n) \div g, d |-> Abs(d) \div g]

LNumber(n) == Ratio(n, 1)
IsNaN(a) == a.d = 0 /\ a.n = 0

NumNeg(a) == [a EXCEPT !.n = -@]
NumAdd(a, b) == IF a.d = 0 /\ b.d = 0
                THEN IF a.n = b.n THEN a ELSE Ratio(0, 0)
                ELSE Ratio(a.n * b.d + b.n * a.d, a.d * b.d)
NumSub(a, b) == NumAdd(a, NumNeg(b))
NumMul(a, b) == Ratio(a.n * b.n, a.d * b.d)
NumDiv(a, b) == Ratio(a.n * b.d, a.d * b.n)
NumEq(a, b) == ~IsNaN(a) /\ ~IsNaN(b) /\ a.n = b.n /\ a.d = b.d
NumLess(a, b) ==
    /\ ~IsNaN(a)
    /\ ~IsNaN(b)
    /\ IF a.d = 0 /\ b.d = 0 THEN a.n < b.n ELSE a.n * b.d < b.n * a.d

LString(s) == [t |-> "str", v |-> s]
LFunction(closure, params, body) ==
    [t |-> "fun", closure |-> closure, params |-> params, body |-> body]
LNative(name, arity) == [t |-> "native", name |-> name, arity |-> arity]

NoLiteral == [t |-> "none"]

Token(type_, lexeme, literal, line) ==
    [type_ |-> type_, lexeme |-> lexeme, literal |-> literal, line |-> line]

(***************************************************************************)
(* Environment (environment.rs)                                            *)
(***************************************************************************)
NoValues == [n \in {} |-> LNone]

\* HashMap::insert
Insert(values, key, value) ==
    [k \in (DOMAIN values) \cup {key} |-> IF k = key THEN value ELSE values[k]]

UndefinedVariable(name) ==
    [token |-> name,
     message |-> "Undefined variable '" \o name.lexeme \o "'."]

\* The chain of nodes from a node to the root.
RECURSIVE Chain(_, _)
Chain(h, node) ==
    IF node = 0 THEN <<>> ELSE <<node>> \o Chain(h, h[node].enclosing)

EnvironmentValuesNew(h) ==
    [heap |-> Append(h, [values |-> NoValues, enclosing |-> 0]),
     head |-> Len(h) + 1]

\* a faulty define: a name bound in an enclosing scope is updated there
EnvironmentValuesDefineUpdatesOuter(h, node, name, value) ==
    LET c == Chain(h, h[node].enclosing)
        I == {i \in 1..Len(c) : name.lexeme \in DOMAIN h[c[i]].values}
    IN IF name.lexeme \notin DOMAIN h[node].values /\ I # {}
       THEN LET o == c[CHOOSE i \in I : \A j \in I : i <= j]
            IN [h EXCEPT ![o].values = Insert(@, name.lexeme, value)]
       ELSE [h EXCEPT ![node].values = Insert(@, name.lexeme, value)]

EnvironmentValuesDefine(h, node, name, value) ==
    [h EXCEPT ![node].values = Insert(@, name.lexeme, value)]

RECURSIVE EnvironmentValuesGet(_, _, _)
\* a faulty get: the enclosing scopes are searched before this scope
EnvironmentValuesGetOuterFirst(h, node, name) ==
    LET outer == IF h[node].enclosing # 0
                 THEN EnvironmentValuesGet(h, h[node].enclosing, name)
                 ELSE [ok |-> FALSE, error |-> UndefinedVariable(name)]
    IN IF outer.ok THEN outer
       ELSE IF name.lexeme \in DOMAIN h[node].values
       THEN [ok |-> TRUE, value |-> h[node].values[name.lexeme]]
       ELSE outer

EnvironmentValuesGet(h, node, name) ==
    IF name.lexeme \in DOMAIN h[node].values
    THEN [ok |-> TRUE, value |-> h[node].values[name.lexeme]]
    ELSE IF h[node].enclosing # 0
         THEN EnvironmentValuesGet(h, h[node].enclosing, name)
         ELSE [ok |-> FALSE, error |-> UndefinedVariable(name)]

RECURSIVE EnvironmentValuesAssign(_, _, _, _)
\* a faulty assign: a name found anywhere in the chain is bound in this scope
EnvironmentValuesAssignShadows(h, node, name, value) ==
    IF EnvironmentValuesGet(h, node, name).ok
    THEN [ok |-> TRUE,
          heap |-> [h EXCEPT ![node].values = Insert(@, name.lexeme, value)]]
    ELSE [ok |-> FALSE, heap |-> h, error |-> UndefinedVariable(name)]

\* a faulty assign: a name found nowhere is bound in the root scope
EnvironmentValuesAssignDefinesOnMiss(h, node, name, value) ==
    IF name.lexeme \in DOMAIN h[node].values \/ h[node].enclosing = 0
    THEN [ok |-> TRUE,
          heap |-> [h EXCEPT ![node].values = Insert(@, name.lexeme, value)]]
    ELSE EnvironmentValuesAssign(h, h[node].enclosing, name, value)

EnvironmentValuesAssign(h, node, name, value) ==
    IF name.lexeme \in DOMAIN h[node].values
    THEN [ok |-> TRUE,
          heap |-> [h EXCEPT ![node].values = Insert(@, name.lexeme, value)]]
    ELSE IF h[node].enclosing # 0
         THEN EnvironmentValuesAssign(h, h[node].enclosing, name, value)
         ELSE [ok |-> FALSE, heap |-> h, error |-> UndefinedVariable(name)]

EnvironmentNew(h) ==
    LET n == EnvironmentValuesNew(h) IN [heap |-> n.heap, env |-> n.head]

\* Environment::head: a second Rc to the same node
EnvironmentHead(env) == env

\* a faulty from_env: the new scope encloses a copy of the node
EnvironmentFromEnvCopies(h, env) ==
    LET copy == Append(h, h[env])
        n    == EnvironmentValuesNew(copy)
    IN [heap |-> [n.heap EXCEPT ![n.head].enclosing = Len(copy)],
        env |-> n.head]

EnvironmentFromEnv(h, env) ==
    LET old == EnvironmentHead(env)
        n   == EnvironmentValuesNew(h)
    IN [heap |-> [n.heap EXCEPT ![n.head].enclosing = old], env |-> n.head]

\* The Clone of Environment used by interpreter.rs:205 and by the Clone of
\* Function: a copy of the handle, the node is shared.
EnvironmentClone(h, env) == [heap |-> h, env |-> env]

EnvironmentDefine(h, env, name, value) ==
    EnvironmentValuesDefine(h, env, name, value)

EnvironmentAssign(h, env, name, value) ==
    EnvironmentValuesAssign(h, env, name, value)

EnvironmentGet(h, env, name) == EnvironmentValuesGet(h, env, name)

(***************************************************************************)
(* Scanner (scanner.rs)                                                    *)
(***************************************************************************)
Digits == {"0", "1", "2", "3", "4", "5", "6", "7", "8", "9"}
Alphabetic ==
    {"a", "b", "c", "d", "e", "f", "g", "h", "i", "j", "k", "l", "m",
     "n", "o", "p", "q", "r", "s", "t", "u", "v", "w", "x", "y", "z",
     "A", "B", "C", "D", "E", "F", "G", "H", "I", "J", "K", "L", "M",
     "N", "O", "P", "Q", "R", "S", "T", "U", "V", "W", "X", "Y", "Z"}
Alphanumeric == Alphabetic \cup Digits

\* Option<char>::None
NoChar == ""

DigitValue(c) ==
    CASE c = "0" -> 0 [] c = "1" -> 1 [] c = "2" -> 2 [] c = "3" -> 3
      [] c = "4" -> 4 [] c = "5" -> 5 [] c = "6" -> 6 [] c = "7" -> 7
      [] c = "8" -> 8 [] c = "9" -> 9

\* String::from_iter
RECURSIVE StringFromIter(_)
StringFromIter(chars) ==
    IF chars = <<>> THEN "" ELSE Head(chars) \o StringFromIter(Tail(chars))

\* str::parse::<f64> of a lexeme digits ( '.' digits )?
RECURSIVE ParseDigits(_, _)
ParseDigits(chars, acc) ==
    IF chars = <<>> THEN acc
    ELSE ParseDigits(Tail(chars), 10 * acc + DigitValue(Head(chars)))

RECURSIVE Pow10(_)
Pow10(k) == IF k = 0 THEN 1 ELSE 10 * Pow10(k - 1)

ParseF64(chars) ==
    LET dots == {i \in 1..Len(chars) : chars[i] = "."}
    IN IF dots = {}
       THEN LNumber(ParseDigits(chars, 0))
       ELSE LET d    == CHOOSE i \in dots : TRUE
                int  == SubSeq(chars, 1, d - 1)
                frac == SubSeq(chars, d + 1, Len(chars))
            IN Ratio(ParseDigits(int \o frac, 0), Pow10(Len(frac)))

Keywords ==
    [k \in {"and", "class", "else", "false", "for", "fun", "if", "nil", "or",
            "print", "return", "super", "this", "true", "var", "while"} |->
        CASE k = "and"    -> "And"
          [] k = "class"  -> "Class"
          [] k = "else"   -> "Else"
          [] k = "false"  -> "False"
          [] k = "for"    -> "For"
          [] k = "fun"    -> "Fun"
          [] k = "if"     -> "If"
          [] k = "nil"    -> "Nil"
          [] k = "or"     -> "Or"
          [] k = "print"  -> "Print"
          [] k = "return" -> "Return"
          [] k = "super"  -> "Super"
          [] k = "this"   -> "This"
          [] k = "true"   -> "True"
          [] k = "var"    -> "Var"
          [] k = "while"  -> "While"]

ScannerNew(source) ==
    [source |-> source, tokens |-> <<>>, start |-> 0, current |-> 0,
     line |-> 1]

ScannerError(line, message) == [line |-> line, message |-> message]

ScanOk(s) == [ok |-> TRUE, s |-> s]
ScanErr(s, err) == [ok |-> FALSE, s |-> s, error |-> err]

ScannerIsAtEnd(s) == s.current >= Len(s.source)

ScannerAdvance(s) ==
    [s |-> [s EXCEPT !.current = @ + 1], c |-> s.source[s.current + 1]]

ScannerAddToken(s, type_, literal) ==
    LET text == StringFromIter(SubSeq(s.source, s.start + 1, s.current))
    IN ScanOk([s EXCEPT !.tokens = Append(@, Token(type_, text, literal, s.line))])

ScannerMatchNext(s, expected) ==
    IF ScannerIsAtEnd(s) THEN [s |-> s, matched |-> FALSE]
    ELSE IF s.source[s.current + 1] # expected THEN [s |-> s, matched |-> FALSE]
    ELSE [s |-> [s EXCEPT !.current = @ + 1], matched |-> TRUE]

ScannerPeek(s) ==
    IF ScannerIsAtEnd(s) THEN NoChar ELSE s.source[s.current + 1]

ScannerPeekNext(s) ==
    IF s.current + 1 >= Len(s.source) THEN NoChar ELSE s.source[s.current + 2]

\* the loop of string(), scanner.rs:189-194
RECURSIVE ScannerStringLoop(_)
ScannerStringLoop(s) ==
    IF ScannerPeek(s) # "\"" /\ ~ScannerIsAtEnd(s)
    THEN LET s1 == IF ScannerPeek(s) = "\n"
                   THEN [s EXCEPT !.line = @ + 1] ELSE s
         IN ScannerStringLoop(ScannerAdvance(s1).s)
    ELSE s

ScannerString(s0) ==
    LET s == ScannerStringLoop(s0)
    IN IF ScannerIsAtEnd(s)
       THEN ScanErr(s, ScannerError(s.line, "Unterminated string."))
       ELSE LET s1  == ScannerAdvance(s).s
                val == StringFromIter(
                           SubSeq(s1.source, s1.start + 2, s1.current - 1))
            IN ScannerAddToken(s1, "String", LString(val))

\* the loops of number(), scanner.rs:210-212 and 218-220
RECURSIVE ScannerDigitsLoop(_)
ScannerDigitsLoop(s) ==
    IF ScannerPeek(s) \in Digits
    THEN ScannerDigitsLoop(ScannerAdvance(s).s) ELSE s

ScannerNumber(s0) ==
    LET s1 == ScannerDigitsLoop(s0)
        s2 == IF ScannerPeek(s1) = "." /\ ScannerPeekNext(s1) \in Digits
              THEN ScannerDigitsLoop(ScannerAdvance(s1).s)
              ELSE s1
        val == SubSeq(s2.source, s2.start + 1, s2.current)
    IN ScannerAddToken(s2, "Number", ParseF64(val))

\* the loop of identifier(), scanner.rs:229-231
RECURSIVE ScannerAlnumLoop(_)
ScannerAlnumLoop(s) ==
    IF ScannerPeek(s) \in Alphanumeric
    THEN ScannerAlnumLoop(ScannerAdvance(s).s) ELSE s

ScannerIdentifier(s0) ==
    LET s   == ScannerAlnumLoop(s0)
        val == StringFromIter(SubSeq(s.source, s.start + 1, s.current))
    IN IF val \in DOMAIN Keywords
       THEN ScannerAddToken(s, Keywords[val], NoLiteral)
       ELSE ScannerAddToken(s, "Identifier", NoLiteral)

\* the comment loop, scanner.rs:109-111
RECURSIVE ScannerCommentLoop(_)
ScannerCommentLoop(s) ==
    IF ScannerPeek(s) # "\n" /\ ~ScannerIsAtEnd(s)
    THEN ScannerCommentLoop(ScannerAdvance(s).s) ELSE s

\* '!' '=' '<' '>' followed by an optional '='
ScannerOneOrTwo(s, two, one) ==
    LET m == ScannerMatchNext(s, "=")
    IN ScannerAddToken(m.s, IF m.matched THEN two ELSE one, NoLiteral)

ScanToken(s0) ==
    LET a == ScannerAdvance(s0)
        s == a.s
        c == a.c
    IN CASE c = "(" -> ScannerAddToken(s, "LeftParen", NoLiteral)
         [] c = ")" -> ScannerAddToken(s, "RightParen", NoLiteral)
         [] c = "{" -> ScannerAddToken(s, "LeftBrace", NoLiteral)
         [] c = "}" -> ScannerAddToken(s, "RightBrace", NoLiteral)
         [] c = "," -> ScannerAddToken(s, "Comma", NoLiteral)
         [] c = "." -> ScannerAddToken(s, "Dot", NoLiteral)
         [] c = "-" -> ScannerAddToken(s, "Minus", NoLiteral)
         [] c = "+" -> ScannerAddToken(s, "Plus", NoLiteral)
         [] c = ";" -> ScannerAddToken(s, "Semicolon", NoLiteral)
         [] c = "*" -> ScannerAddToken(s, "Star", NoLiteral)
         [] c = "!" -> ScannerOneOrTwo(s, "BangEqual", "Bang")
         [] c = "=" -> ScannerOneOrTwo(s, "EqualEqual", "Equal")
         [] c = "<" -> ScannerOneOrTwo(s, "LessEqual", "Less")
         [] c = ">" -> ScannerOneOrTwo(s, "GreaterEqual", "Greater")
         [] c = "/" ->
              LET m == ScannerMatchNext(s, "/")
              IN IF m.matched THEN ScanOk(ScannerCommentLoop(m.s))
                 ELSE ScannerAddToken(m.s, "Slash", NoLiteral)
         [] c \in {" ", "\r", "\t"} -> ScanOk(s)
         [] c = "\n" -> ScanOk([s EXCEPT !.line = @ + 1])
         [] c = "\"" -> ScannerString(s)
         [] OTHER ->
              IF c \in Digits THEN ScannerNumber(s)
              ELSE IF c \in Alphabetic THEN ScannerIdentifier(s)
              ELSE ScanErr(s, ScannerError(s.line, "Unexpected character."))

\* the loop of scan_tokens: at most n more iterations after the result r of
\* the iterations before; an error ends the loop (the ? of scanner.rs:49)
RECURSIVE ScanTokensLoop(_, _)
ScanTokensLoop(r, n) ==
    IF n = 0 \/ ~r.ok \/ ScannerIsAtEnd(r.s) THEN r
    ELSE IF n = 1 THEN ScanToken([r.s EXCEPT !.start = r.s.current])
    ELSE ScanTokensLoop(ScanTokensLoop(r, n \div 2), n - (n \div 2))

\* a faulty scan_tokens: the Eof token is put on the line before the last
ScanTokensEofLineBefore(s0) ==
    LET r == ScanTokensLoop(ScanOk(s0), Len(s0.source))
        eof == Token("Eof", "", NoLiteral,
                     IF r.s.line > 1 THEN r.s.line - 1 ELSE 1)
    IN IF r.ok
       THEN [ok |-> TRUE, tokens |-> Append(r.s.tokens, eof),
             s |-> [r.s EXCEPT !.tokens = Append(@, eof)]]
       ELSE [ok |-> FALSE, error |-> r.error, s |-> r.s]

\* scan_tokens: Ok(tokens) or the first error.  Every iteration consumes a
\* character, so Len(source) iterations reach the end of the source
ScanTokens(s0) ==
    LET r == ScanTokensLoop(ScanOk(s0), Len(s0.source))
        eof == Token("Eof", "", NoLiteral, r.s.line)
    IN IF r.ok
       THEN [ok |-> TRUE, tokens |-> Append(r.s.tokens, eof),
             s |-> [r.s EXCEPT !.tokens = Append(@, eof)]]
       ELSE [ok |-> FALSE, error |-> r.error, s |-> r.s]

(***************************************************************************)
(* AST (the Expr and Stmt variants built by parser.rs)                     *)
(***************************************************************************)
NoExpr == [k |-> "None"]
NoStmt == [k |-> "None"]

ExprAssign(name, value) == [k |-> "Assign", name |-> name, value |-> value]
ExprBinary(left, operator, right) ==
    [k |-> "Binary", left |-> left, operator |-> operator, right |-> right]
ExprCall(callee, paren, arguments) ==
    [k |-> "Call", callee |-> callee, paren |-> paren, arguments |-> arguments]
ExprGrouping(expression) == [k |-> "Grouping", expression |-> expression]
ExprLiteral(value) == [k |-> "Literal", value |-> value]
ExprLogical(left, operator, right) ==
    [k |-> "Logical", left |-> left, operator |-> operator, right |-> right]
ExprUnary(operator, right) ==
    [k |-> "Unary", operator |-> operator, right |-> right]
ExprVariable(name) == [k |-> "Variable", name |-> name]

StmtBlock(statements) == [k |-> "Block", statements |-> statements]
StmtExpression(expression) == [k |-> "Expression", expression |-> expression]
StmtFunction(name, params, body) ==
    [k |-> "Function", name |-> name, params |-> params, body |-> body]
StmtIf(condition, then_branch, else_branch) ==
    [k |-> "If", condition |-> condition, then_branch |-> then_branch,
     else_branch |-> else_branch]
StmtPrint(expression) == [k |-> "Print", expression |-> expression]
StmtReturn(keyword, value) ==
    [k |-> "Return", keyword |-> keyword, value |-> value]
StmtVar(name, initializer) ==
    [k |-> "Var", name |-> name, initializer |-> initializer]
StmtWhile(condition, body) ==
    [k |-> "While", condition |-> condition, body |-> body]

(***************************************************************************)
(* Parser (parser.rs)                                                      *)
(***************************************************************************)
MaxArguments == 255

\* Parser::new, parser.rs:13-18.  inside is a ghost: every index the parser
\* has read so far was an index of the list.
ParserNew(tokens) == [tokens |-> tokens, current |-> 0, inside |-> TRUE]

ParserError(token, message) == [token |-> token, message |-> message]

POk(p, node) == [ok |-> TRUE, p |-> p, node |-> node]
PErr(p, error) == [ok |-> FALSE, p |-> p, error |-> error]

\* what a read outside the list gives: the program panics there, the model
\* goes on with a token of no kind and records the read in inside
OutOfBounds == Token("OutOfBounds", "", NoLiteral, 0)

\* peek (self.tokens[self.current]) and previous
\* (self.tokens[self.current - 1]), parser.rs:503-509
ParserPeek(p) ==
    IF p.current < Len(p.tokens) THEN p.tokens[p.current + 1] ELSE OutOfBounds
ParserPrevious(p) ==
    IF p.current \in 1..Len(p.tokens) THEN p.tokens[p.current] ELSE OutOfBounds
ParserIsAtEnd(p) == ParserPeek(p).type_ = "Eof"

ParserCheck(p, type_) ==
    IF ParserIsAtEnd(p) THEN FALSE ELSE ParserPeek(p).type_ = type_

\* the indices advance reads: current, in is_at_end, and then current - 1,
\* in previous
AdvanceInside(from, to) ==
    /\ from.current < Len(from.tokens)
    /\ to.current \in 1..Len(to.tokens)

\* a faulty advance: the cursor moves by two
ParserAdvanceByTwo(p) ==
    LET p1 == IF ~ParserIsAtEnd(p) THEN [p EXCEPT !.current = @ + 2] ELSE p
    IN [p |-> [p1 EXCEPT !.inside = @ /\ AdvanceInside(p, p1)],
        token |-> ParserPrevious(p1)]

ParserAdvance(p) ==
    LET p1 == IF ~ParserIsAtEnd(p) THEN [p EXCEPT !.current = @ + 1] ELSE p
    IN [p |-> [p1 EXCEPT !.inside = @ /\ AdvanceInside(p, p1)],
        token |-> ParserPrevious(p1)]

ParserMatch(p, types) ==
    IF \E i \in 1..Len(types) : ParserCheck(p, types[i])
    THEN [p |-> ParserAdvance(p).p, matched |-> TRUE]
    ELSE [p |-> p, matched |-> FALSE]

ParserConsume(p, type_, message) ==
    IF ParserCheck(p, type_)
    THEN LET a == ParserAdvance(p) IN POk(a.p, a.token)
    ELSE PErr(p, ParserError(ParserPeek(p), message))

\* a faulty loop of synchronize(): it stops at an identifier as well
RECURSIVE ParserSynchronizeLoopStopsAtIdentifier(_)
ParserSynchronizeLoopStopsAtIdentifier(p) ==
    IF ~ParserIsAtEnd(p)
    THEN IF ParserPrevious(p).type_ = "Semicolon" THEN p
         ELSE IF ParserPeek(p).type_ \in
                    {"Class", "Fun", "Var", "For", "If", "While", "Print",
                     "Return", "Identifier"}
              THEN p
              ELSE ParserSynchronizeLoopStopsAtIdentifier(ParserAdvance(p).p)
    ELSE p

\* the loop of synchronize(), parser.rs:476-496
RECURSIVE ParserSynchronizeLoop(_)
ParserSynchronizeLoop(p) ==
    IF ~ParserIsAtEnd(p)
    THEN IF ParserPrevious(p).type_ = "Semicolon" THEN p
         ELSE IF ParserPeek(p).type_ \in
                    {"Class", "Fun", "Var", "For", "If", "While", "Print",
                     "Return"}
              THEN p
              ELSE ParserSynchronizeLoop(ParserAdvance(p).p)
    ELSE p

\* synchronize, parser.rs:472-497
ParserSynchronize(p) == ParserSynchronizeLoop(ParserAdvance(p).p)

\* the ? operator on a parser Result: the Err of r is returned, an Ok is
\* handed to what follows
ParserTry(r, Then(_)) == IF r.ok THEN Then(r) ELSE r

RECURSIVE ParserDeclaration(_), ParserStatement(_), ParserForStatement(_),
          ParserIfStatement(_), ParserPrintStatement(_),
          ParserReturnStatement(_), ParserWhileStatement(_),
          ParserBlock(_), ParserBlockLoop(_, _), ParserVarDeclaration(_),
          ParserExpressionStatement(_), ParserFunction(_, _),
          ParserParamsLoop(_, _), ParserParamsChunk(_, _),
          ParserExpression(_), ParserAssignment(_),
          ParserOr(_), ParserOrLoop(_, _), ParserAnd(_), ParserAndLoop(_, _),
          ParserEquality(_), ParserEqualityLoop(_, _), ParserComparison(_),
          ParserComparisonLoop(_, _), ParserTerm(_), ParserTermLoop(_, _),
          ParserFactor(_), ParserFactorLoop(_, _), ParserUnary(_),
          ParserFinishCall(_, _), ParserArgumentsLoop(_, _),
          ParserArgumentsChunk(_, _), ParserCall(_),
          ParserCallLoop(_, _), ParserPrimary(_)

ParserDeclaration(p) ==
    LET f == ParserMatch(p, <<"Fun">>)
        v == ParserMatch(p, <<"Var">>)
    IN CASE f.matched -> ParserFunction(f.p, "function")
         [] v.matched -> ParserVarDeclaration(v.p)
         [] OTHER     -> ParserStatement(p)

ParserStatement(p) ==
    LET m(type_) == ParserMatch(p, <<type_>>)
    IN CASE m("For").matched    -> ParserForStatement(m("For").p)
         [] m("If").matched     -> ParserIfStatement(m("If").p)
         [] m("Print").matched  -> ParserPrintStatement(m("Print").p)
         [] m("Return").matched -> ParserReturnStatement(m("Return").p)
         [] m("While").matched  -> ParserWhileStatement(m("While").p)
         [] m("LeftBrace").matched ->
              ParserTry(ParserBlock(m("LeftBrace").p),
              LAMBDA b : POk(b.p, StmtBlock(b.node)))
         [] OTHER -> ParserExpressionStatement(p)

\* a faulty lowering of for: the increment is put before the body
ParserForStatementIncrementFirst(p0) ==
    ParserTry(ParserConsume(p0, "LeftParen", "Expect '(' after 'for'."),
    LAMBDA lp :
    \* Some(stmt), or None as NoStmt
    ParserTry(LET semi == ParserMatch(lp.p, <<"Semicolon">>)
                  var  == ParserMatch(lp.p, <<"Var">>)
              IN CASE semi.matched -> POk(semi.p, NoStmt)
                   [] var.matched  -> ParserVarDeclaration(var.p)
                   [] OTHER        -> ParserExpressionStatement(lp.p),
    LAMBDA initializer :
    ParserTry(IF ParserCheck(initializer.p, "Semicolon")
              THEN POk(initializer.p, ExprLiteral(LBool(TRUE)))
              ELSE ParserExpression(initializer.p),
    LAMBDA condition :
    ParserTry(ParserConsume(condition.p, "Semicolon",
                            "Expect ';' after loop condition."),
    LAMBDA s2 :
    ParserTry(IF ParserCheck(s2.p, "RightParen") THEN POk(s2.p, NoExpr)
              ELSE ParserExpression(s2.p),
    LAMBDA increment :
    ParserTry(ParserConsume(increment.p, "RightParen",
                            "Expect ')' after for clauses."),
    LAMBDA rp :
    ParserTry(ParserStatement(rp.p),
    LAMBDA body :
    LET body1 == IF increment.node.k # "None"
                 THEN StmtBlock(<<StmtExpression(increment.node), body.node>>)
                 ELSE body.node
        body2 == StmtWhile(condition.node, body1)
        body3 == IF initializer.node.k # "None"
                 THEN StmtBlock(<<initializer.node, body2>>)
                 ELSE body2
    IN POk(body.p, body3))))))))

\* for_statement, parser.rs:59-109
ParserForStatement(p0) ==
    ParserTry(ParserConsume(p0, "LeftParen", "Expect '(' after 'for'."),
    LAMBDA lp :
    \* Some(stmt), or None as NoStmt
    ParserTry(LET semi == ParserMatch(lp.p, <<"Semicolon">>)
                  var  == ParserMatch(lp.p, <<"Var">>)
              IN CASE semi.matched -> POk(semi.p, NoStmt)
                   [] var.matched  -> ParserVarDeclaration(var.p)
                   [] OTHER        -> ParserExpressionStatement(lp.p),
    LAMBDA initializer :
    ParserTry(IF ParserCheck(initializer.p, "Semicolon")
              THEN POk(initializer.p, ExprLiteral(LBool(TRUE)))
              ELSE ParserExpression(initializer.p),
    LAMBDA condition :
    ParserTry(ParserConsume(condition.p, "Semicolon",
                            "Expect ';' after loop condition."),
    LAMBDA s2 :
    ParserTry(IF ParserCheck(s2.p, "RightParen") THEN POk(s2.p, NoExpr)
              ELSE ParserExpression(s2.p),
    LAMBDA increment :
    ParserTry(ParserConsume(increment.p, "RightParen",
                            "Expect ')' after for clauses."),
    LAMBDA rp :
    ParserTry(ParserStatement(rp.p),
    LAMBDA body :
    LET body1 == IF increment.node.k # "None"
                 THEN StmtBlock(<<body.node, StmtExpression(increment.node)>>)
                 ELSE body.node
        body2 == StmtWhile(condition.node, body1)
        body3 == IF initializer.node.k # "None"
                 THEN StmtBlock(<<initializer.node, body2>>)
                 ELSE body2
    IN POk(body.p, body3))))))))

ParserIfStatement(p0) ==
    ParserTry(ParserConsume(p0, "LeftParen", "Expect '(' after 'if'."),
    LAMBDA lp :
    ParserTry(ParserExpression(lp.p),
    LAMBDA condition :
    ParserTry(ParserConsume(condition.p, "RightParen",
                            "Expect ')' after if condition"),
    LAMBDA rp :
    ParserTry(ParserStatement(rp.p),
    LAMBDA then_branch :
    ParserTry(LET e == ParserMatch(then_branch.p, <<"Else">>)
              IN IF e.matched THEN ParserStatement(e.p)
                 ELSE POk(e.p, NoStmt),
    LAMBDA else_branch :
    POk(else_branch.p,
        StmtIf(condition.node, then_branch.node, else_branch.node)))))))

ParserPrintStatement(p0) ==
    ParserTry(ParserExpression(p0),
    LAMBDA value :
    ParserTry(ParserConsume(value.p, "Semicolon", "Expect ';' after value."),
    LAMBDA semi :
    POk(semi.p, StmtPrint(value.node))))

ParserReturnStatement(p0) ==
    ParserTry(IF ParserCheck(p0, "Semicolon") THEN POk(p0, NoExpr)
              ELSE ParserExpression(p0),
    LAMBDA value :
    ParserTry(ParserConsume(value.p, "Semicolon",
                            "Expect ';' after return value."),
    LAMBDA semi :
    POk(semi.p, StmtReturn(ParserPrevious(p0), value.node))))

ParserWhileStatement(p0) ==
    ParserTry(ParserConsume(p0, "LeftParen", "Expect '(' after while."),
    LAMBDA lp :
    ParserTry(ParserExpression(lp.p),
    LAMBDA condition :
    ParserTry(ParserConsume(condition.p, "RightParen",
                            "Expect ')' after condition."),
    LAMBDA rp :
    ParserTry(ParserStatement(rp.p),
    LAMBDA body :
    POk(body.p, StmtWhile(condition.node, body.node))))))

\* the loop of block(), parser.rs:164-166
ParserBlockLoop(p, statements) ==
    IF ParserCheck(p, "RightBrace") \/ ParserIsAtEnd(p)
    THEN POk(p, statements)
    ELSE ParserTry(ParserDeclaration(p),
         LAMBDA d : ParserBlockLoop(d.p, Append(statements, d.node)))

ParserBlock(p0) ==
    ParserTry(ParserBlockLoop(p0, <<>>),
    LAMBDA statements :
    ParserTry(ParserConsume(statements.p, "RightBrace",
                            "Expect '}' after block."),
    LAMBDA rb :
    POk(rb.p, statements.node)))

ParserVarDeclaration(p0) ==
    ParserTry(ParserConsume(p0, "Identifier", "Expect variable name."),
    LAMBDA name :
    ParserTry(LET eq == ParserMatch(name.p, <<"Equal">>)
              IN IF eq.matched THEN ParserExpression(eq.p)
                 ELSE POk(eq.p, NoExpr),
    LAMBDA initializer :
    ParserTry(ParserConsume(initializer.p, "Semicolon",
                            "Expect ';' after variable declaration."),
    LAMBDA semi :
    POk(semi.p, StmtVar(name.node, initializer.node)))))

ParserExpressionStatement(p0) ==
    ParserTry(ParserExpression(p0),
    LAMBDA expr :
    ParserTry(ParserConsume(expr.p, "Semicolon",
                            "Expect ';' after expression."),
    LAMBDA semi :
    POk(semi.p, StmtExpression(expr.node))))

\* the state of a loop that collects a list: the parser, the list so far and
\* whether the loop goes on (no break yet)
PLoop(p, list, more) == [ok |-> TRUE, p |-> p, node |-> list, more |-> more]

\* a faulty iteration: the limit is tested with > in place of >=
ParserParamsIterationOffByOne(r) ==
    IF Len(r.node) > MaxArguments
    THEN PErr(r.p, ParserError(ParserPeek(r.p),
                               "Can't have more than 255 parameters."))
    ELSE ParserTry(ParserConsume(r.p, "Identifier", "Expect parameter name."),
         LAMBDA id :
         LET c == ParserMatch(id.p, <<"Comma">>)
         IN PLoop(c.p, Append(r.node, id.node), c.matched))

\* one iteration of the loop of function(), parser.rs:208-220
ParserParamsIteration(r) ==
    IF Len(r.node) >= MaxArguments
    THEN PErr(r.p, ParserError(ParserPeek(r.p),
                               "Can't have more than 255 parameters."))
    ELSE ParserTry(ParserConsume(r.p, "Identifier", "Expect parameter name."),
         LAMBDA id :
         LET c == ParserMatch(id.p, <<"Comma">>)
         IN PLoop(c.p, Append(r.node, id.node), c.matched))

\* at most n more iterations of the loop of function() after the state r of
\* the iterations before; an error or the break ends them
ParserParamsChunk(r, n) ==
    IF n = 0 \/ ~r.ok \/ ~r.more THEN r
    ELSE IF n = 1 THEN ParserParamsIteration(r)
    ELSE ParserParamsChunk(ParserParamsChunk(r, n \div 2), n - (n \div 2))

\* the loop of function(), parser.rs:207-221, from the state r: n iterations,
\* then 2n, then 4n, until an error or the break
ParserParamsLoop(r, n) ==
    IF ~r.ok \/ ~r.more THEN r
    ELSE ParserParamsLoop(ParserParamsChunk(r, n), 2 * n)

ParserFunction(p0, kind) ==
    ParserTry(ParserConsume(p0, "Identifier", "Expect " \o kind \o " name."),
    LAMBDA name :
    ParserTry(ParserConsume(name.p, "LeftParen",
                            "Expect '(' after " \o kind \o " name."),
    LAMBDA lp :
    ParserTry(IF ~ParserCheck(lp.p, "RightParen")
              THEN ParserParamsLoop(PLoop(lp.p, <<>>, TRUE), 1)
              ELSE POk(lp.p, <<>>),
    LAMBDA params :
    ParserTry(ParserConsume(params.p, "RightParen",
                            "Expect ')' after parameters."),
    LAMBDA rp :
    ParserTry(ParserConsume(rp.p, "LeftBrace",
                            "Expect '{' before " \o kind \o " body."),
    LAMBDA lb :
    ParserTry(ParserBlock(lb.p),
    LAMBDA body :
    POk(body.p, StmtFunction(name.node, params.node, body.node))))))))

ParserExpression(p) == ParserAssignment(p)

ParserAssignment(p0) ==
    ParserTry(ParserOr(p0),
    LAMBDA expr :
    LET eq == ParserMatch(expr.p, <<"Equal">>)
    IN IF eq.matched
       THEN ParserTry(ParserAssignment(eq.p),
            LAMBDA value :
            IF expr.node.k = "Variable"
            THEN POk(value.p, ExprAssign(expr.node.name, value.node))
            ELSE PErr(value.p, ParserError(ParserPrevious(eq.p),
                                           "Invalid assignment target.")))
       ELSE expr)

\* or(), parser.rs:256-270.  Both calls of and() are the one call
\* here: the first operand is parsed with nothing pending, each later one
\* as the right operand of the pending <<expr, operator>>
ParserOrLoop(p, pending) ==
    ParserTry(ParserAnd(p),
    LAMBDA right :
    LET expr == IF pending = <<>> THEN right.node
                ELSE ExprLogical(pending[1], pending[2], right.node)
        m == ParserMatch(right.p, <<"Or">>)
    IN IF m.matched
       THEN ParserOrLoop(m.p, <<expr, ParserPrevious(m.p)>>)
       ELSE POk(right.p, expr))

ParserOr(p0) == ParserOrLoop(p0, <<>>)

\* and(), parser.rs:272-286.  Both calls of equality() are the one call
\* here: the first operand is parsed with nothing pending, each later one
\* as the right operand of the pending <<expr, operator>>
ParserAndLoop(p, pending) ==
    ParserTry(ParserEquality(p),
    LAMBDA right :
    LET expr == IF pending = <<>> THEN right.node
                ELSE ExprLogical(pending[1], pending[2], right.node)
        m == ParserMatch(right.p, <<"And">>)
    IN IF m.matched
       THEN ParserAndLoop(m.p, <<expr, ParserPrevious(m.p)>>)
       ELSE POk(right.p, expr))

ParserAnd(p0) == ParserAndLoop(p0, <<>>)

\* equality(), parser.rs:288-301.  Both calls of comparison() are the one call
\* here: the first operand is parsed with nothing pending, each later one
\* as the right operand of the pending <<expr, operator>>
ParserEqualityLoop(p, pending) ==
    ParserTry(ParserComparison(p),
    LAMBDA right :
    LET expr == IF pending = <<>> THEN right.node
                ELSE ExprBinary(pending[1], pending[2], right.node)
        m == ParserMatch(right.p, <<"BangEqual", "EqualEqual">>)
    IN IF m.matched
       THEN ParserEqualityLoop(m.p, <<expr, ParserPrevious(m.p)>>)
       ELSE POk(right.p, expr))

ParserEquality(p0) == ParserEqualityLoop(p0, <<>>)

\* comparison(), parser.rs:303-322.  Both calls of term() are the one call
\* here: the first operand is parsed with nothing pending, each later one
\* as the right operand of the pending <<expr, operator>>
ParserComparisonLoop(p, pending) ==
    ParserTry(ParserTerm(p),
    LAMBDA right :
    LET expr == IF pending = <<>> THEN right.node
                ELSE ExprBinary(pending[1], pending[2], right.node)
        m == ParserMatch(right.p, <<"Greater", "GreaterEqual", "Less", "LessEqual">>)
    IN IF m.matched
       THEN ParserComparisonLoop(m.p, <<expr, ParserPrevious(m.p)>>)
       ELSE POk(right.p, expr))

ParserComparison(p0) == ParserComparisonLoop(p0, <<>>)

\* term(), parser.rs:324-338.  Both calls of factor() are the one call
\* here: the first operand is parsed with nothing pending, each later one
\* as the right operand of the pending <<expr, operator>>
ParserTermLoop(p, pending) ==
    ParserTry(ParserFactor(p),
    LAMBDA right :
    LET expr == IF pending = <<>> THEN right.node
                ELSE ExprBinary(pending[1], pending[2], right.node)
        m == ParserMatch(right.p, <<"Minus", "Plus">>)
    IN IF m.matched
       THEN ParserTermLoop(m.p, <<expr, ParserPrevious(m.p)>>)
       ELSE POk(right.p, expr))

ParserTerm(p0) == ParserTermLoop(p0, <<>>)

\* a faulty unary(): a + starts a unary expression as well
ParserUnaryWithPlus(p0) ==
    LET m == ParserMatch(p0, <<"Bang", "Minus", "Plus">>)
    IN IF m.matched
       THEN ParserTry(ParserUnary(m.p),
            LAMBDA right :
            POk(right.p, ExprUnary(ParserPrevious(m.p), right.node)))
       ELSE ParserCall(p0)

\* unary(), parser.rs:340-348
ParserUnary(p0) ==
    LET m == ParserMatch(p0, <<"Bang", "Minus">>)
    IN IF m.matched
       THEN ParserTry(ParserUnary(m.p),
            LAMBDA right :
            POk(right.p, ExprUnary(ParserPrevious(m.p), right.node)))
       ELSE ParserCall(p0)

\* one iteration of the loop of finish_call(), parser.rs:355-366
ParserArgumentsIteration(r) ==
    IF Len(r.node) >= MaxArguments
    THEN PErr(r.p, ParserError(ParserPeek(r.p),
                               "Can't have more than 255 arguments."))
    ELSE ParserTry(ParserExpression(r.p),
         LAMBDA e :
         LET c == ParserMatch(e.p, <<"Comma">>)
         IN PLoop(c.p, Append(r.node, e.node), c.matched))

\* at most n more iterations of the loop of finish_call() after the state r
\* of the iterations before
ParserArgumentsChunk(r, n) ==
    IF n = 0 \/ ~r.ok \/ ~r.more THEN r
    ELSE IF n = 1 THEN ParserArgumentsIteration(r)
    ELSE ParserArgumentsChunk(ParserArgumentsChunk(r, n \div 2),
                              n - (n \div 2))

\* the loop of finish_call(), parser.rs:354-367, from the state r: n
\* iterations, then 2n, then 4n, until an error or the break
ParserArgumentsLoop(r, n) ==
    IF ~r.ok \/ ~r.more THEN r
    ELSE ParserArgumentsLoop(ParserArgumentsChunk(r, n), 2 * n)

ParserFinishCall(p0, callee) ==
    ParserTry(IF ~ParserCheck(p0, "RightParen")
              THEN ParserArgumentsLoop(PLoop(p0, <<>>, TRUE), 1)
              ELSE POk(p0, <<>>),
    LAMBDA arguments :
    ParserTry(ParserConsume(arguments.p, "RightParen",
                            "Expect ')' after arguments."),
    LAMBDA paren :
    POk(paren.p, ExprCall(callee, paren.node, arguments.node))))

\* the loop of call(), parser.rs:381-387
ParserCallLoop(p, expr) ==
    LET m == ParserMatch(p, <<"LeftParen">>)
    IN IF m.matched
       THEN ParserTry(ParserFinishCall(m.p, expr),
            LAMBDA c : ParserCallLoop(c.p, c.node))
       ELSE POk(p, expr)

ParserCall(p0) ==
    ParserTry(ParserPrimary(p0),
    LAMBDA expr : ParserCallLoop(expr.p, expr.node))

ParserPrimary(p) ==
    LET m(types) == ParserMatch(p, types)
        p1 == ParserAdvance(p).p
    IN CASE m(<<"False">>).matched -> POk(p1, ExprLiteral(LBool(FALSE)))
         [] m(<<"True">>).matched  -> POk(p1, ExprLiteral(LBool(TRUE)))
         [] m(<<"Nil">>).matched   -> POk(p1, ExprLiteral(LNone))
         [] m(<<"Number", "String">>).matched ->
              POk(p1, ExprLiteral(ParserPrevious(p1).literal))
         [] m(<<"Identifier">>).matched ->
              POk(p1, ExprVariable(ParserPrevious(p1)))
         [] m(<<"LeftParen">>).matched ->
              ParserTry(ParserExpression(p1),
              LAMBDA expression :
              ParserTry(ParserConsume(expression.p, "RightParen",
                                      "Expect ')' after expression."),
              LAMBDA rp :
              POk(rp.p, ExprGrouping(expression.node))))
         [] OTHER ->
              PErr(p, ParserError(ParserPeek(p), "Expect expression."))

\* factor(), parser.rs:422-436.  Both calls of unary() are the one call
\* here: the first operand is parsed with nothing pending, each later one
\* as the right operand of the pending <<expr, operator>>
ParserFactorLoop(p, pending) ==
    ParserTry(ParserUnary(p),
    LAMBDA right :
    LET expr == IF pending = <<>> THEN right.node
                ELSE ExprBinary(pending[1], pending[2], right.node)
        m == ParserMatch(right.p, <<"Slash", "Star">>)
    IN IF m.matched
       THEN ParserFactorLoop(m.p, <<expr, ParserPrevious(m.p)>>)
       ELSE POk(right.p, expr))

ParserFactor(p0) == ParserFactorLoop(p0, <<>>)

\* the loop of parse(), parser.rs:23-25
RECURSIVE ParserParseLoop(_, _)
ParserParseLoop(p, statements) ==
    IF ParserIsAtEnd(p) THEN POk(p, statements)
    ELSE ParserTry(ParserDeclaration(p),
         LAMBDA d : ParserParseLoop(d.p, Append(statements, d.node)))

\* parse: Ok(statements) or the first ParserError
ParserParse(p0) ==
    LET Result(r) ==
            IF r.ok THEN [ok |-> TRUE, statements |-> r.node, p |-> r.p]
            ELSE [ok |-> FALSE, error |-> r.error, p |-> r.p]
    IN Result(ParserParseLoop(p0, <<>>))

(***************************************************************************)
(* Value formatting (token.rs, impl Display for Literal)                   *)
(***************************************************************************)
DigitChar(d) ==
    CASE d = 0 -> "0" [] d = 1 -> "1" [] d = 2 -> "2" [] d = 3 -> "3"
      [] d = 4 -> "4" [] d = 5 -> "5" [] d = 6 -> "6" [] d = 7 -> "7"
      [] d = 8 -> "8" [] d = 9 -> "9"

RECURSIVE NatToString(_)
NatToString(n) ==
    IF n < 10 THEN DigitChar(n)
    ELSE NatToString(n \div 10) \o DigitChar(n % 10)

IntToString(n) == IF n < 0 THEN "-" \o NatToString(-n) ELSE NatToString(n)

\* f64 Display; a number that is not an integer is written n/d
NumberToString(a) ==
    IF a.d = 0
    THEN (IF a.n = 0 THEN "NaN" ELSE IF a.n > 0 THEN "inf" ELSE "-inf")
    ELSE IF a.d = 1 THEN IntToString(a.n)
    ELSE IntToString(a.n) \o "/" \o IntToString(a.d)

CallableArity(c) == IF c.t = "fun" THEN Len(c.params) ELSE c.arity

LiteralToString(value) ==
    CASE value.t = "nil"  -> "nil"
      [] value.t = "bool" -> (IF value.v THEN "true" ELSE "false")
      [] value.t \in {"fun", "native"} ->
             "callable(" \o IntToString(CallableArity(value)) \o ")"
      [] value.t = "str"  -> value.v
      [] value.t = "num"  -> NumberToString(value)

(***************************************************************************)
(* Evaluator (interpreter.rs, token.rs)                                    *)
(*                                                                         *)
(* st is [heap, environment, out, trace, fuel, clock]: the nodes, the      *)
(* Interpreter.environment handle, standard output, the record of what the *)
(* evaluator did, the remaining loop iterations and calls, and the reading *)
(* of the system clock.  A result is Ok(value), Err(Runtime), Err(Return)  *)
(* or "fuel" when the bound on iterations and calls is exhausted.          *)
(***************************************************************************)
RuntimeError(token, message) == [token |-> token, message |-> message]

NoError == [message |-> ""]

Ok(st, value) == [kind |-> "ok", value |-> value, error |-> NoError, st |-> st]
ErrRuntime(st, err) == [kind |-> "runtime", value |-> LNone, error |-> err, st |-> st]
ErrReturn(st, value) ==
    [kind |-> "return", value |-> value, error |-> NoError, st |-> st]
OutOfFuel(st) == [kind |-> "fuel", value |-> LNone, error |-> NoError, st |-> st]

Emit(st, event) == [st EXCEPT !.trace = Append(@, event)]

is_truthy(val) ==
    CASE val.t = "nil"  -> FALSE
      [] val.t = "bool" -> val.v
      [] OTHER          -> TRUE

is_equal(left, right) ==
    CASE left.t = "nil"  /\ right.t = "nil"  -> TRUE
      [] left.t = "bool" /\ right.t = "bool" -> left.v = right.v
      [] left.t = "num"  /\ right.t = "num"  -> NumEq(left, right)
      [] left.t = "str"  /\ right.t = "str"  -> left.v = right.v
      [] OTHER -> FALSE

\* the operators with an arm in the match of Expr::Binary
\* (interpreter.rs:59-118), of Expr::Logical (interpreter.rs:151-174) and of
\* Expr::Unary (interpreter.rs:176-188); any other reaches unreachable!()
BinaryOperators ==
    {"Minus", "Slash", "Star", "Plus", "Greater", "GreaterEqual", "Less",
     "LessEqual", "BangEqual", "EqualEqual"}
LogicalOperators == {"Or", "And"}
UnaryOperators == {"Minus", "Bang"}

\* the match on operator.type_ of Expr::Binary, interpreter.rs:59-118
BinaryOp(st, operator, left, right) ==
    LET nums    == left.t = "num" /\ right.t = "num"
        numbers == ErrRuntime(st, RuntimeError(operator,
                                               "Operands must be numbers."))
        type_   == operator.type_
    IN CASE type_ = "Minus" ->
              IF nums THEN Ok(st, NumSub(left, right)) ELSE numbers
         [] type_ = "Slash" ->
              IF nums THEN Ok(st, NumDiv(left, right)) ELSE numbers
         [] type_ = "Star" ->
              IF nums THEN Ok(st, NumMul(left, right)) ELSE numbers
         [] type_ = "Plus" ->
              IF nums THEN Ok(st, NumAdd(left, right))
              ELSE IF left.t = "str" /\ right.t = "str"
              THEN Ok(st, LString(left.v \o right.v))
              ELSE ErrRuntime(st, RuntimeError(operator,
                       "Operands must be two numbers or two strings."))
         [] type_ = "Greater" ->
              IF nums THEN Ok(st, LBool(NumLess(right, left))) ELSE numbers
         [] type_ = "GreaterEqual" ->
              IF nums
              THEN Ok(st, LBool(NumLess(right, left) \/ NumEq(left, right)))
              ELSE numbers
         [] type_ = "Less" ->
              IF nums THEN Ok(st, LBool(NumLess(left, right))) ELSE numbers
         [] type_ = "LessEqual" ->
              IF nums
              THEN Ok(st, LBool(NumLess(left, right) \/ NumEq(left, right)))
              ELSE numbers
         [] type_ = "BangEqual"  -> Ok(st, LBool(~is_equal(left, right)))
         [] type_ = "EqualEqual" -> Ok(st, LBool(is_equal(left, right)))

\* native_functions.rs clock_fn: the seconds since the epoch
ClockFn(st, arguments) == Ok(st, LNumber(st.clock))

NativeFunctionCall(st, f, arguments) == ClockFn(st, arguments)

\* the ? operator on a Result of the evaluator: anything but Ok is returned
\* to the caller, an Ok is handed to what follows
Try(r, Then(_)) == IF r.kind = "ok" THEN Then(r) ELSE r

RECURSIVE Evaluate(_, _), EvaluateArguments(_, _, _), CallableCall(_, _, _),
          FunctionCall(_, _, _), Execute(_, _), ExecuteWhile(_, _),
          ExecuteBlock(_, _, _), ExecuteBlockLoop(_, _, _),
          EvaluateLogical(_, _), ExecuteWhileCatchesReturn(_, _)

\* a faulty Expr::Logical: the right operand is evaluated whatever the left
\* one is
EvaluateLogicalEager(st, expression) ==
    Try(Evaluate(st, expression.left),
    LAMBDA left :
    Try(Evaluate(left.st, expression.right),
    LAMBDA right :
    CASE expression.operator.type_ = "Or" ->
           IF is_truthy(left.value) THEN Ok(right.st, left.value) ELSE right
      [] expression.operator.type_ = "And" ->
           IF ~is_truthy(left.value) THEN Ok(right.st, left.value)
           ELSE right))

\* evaluate, the arm Expr::Logical, interpreter.rs:151-174
EvaluateLogical(st, expression) ==
    Try(Evaluate(st, expression.left),
    LAMBDA left :
    CASE expression.operator.type_ = "Or" ->
           IF is_truthy(left.value) THEN left
           ELSE Evaluate(left.st, expression.right)
      [] expression.operator.type_ = "And" ->
           IF ~is_truthy(left.value) THEN left
           ELSE Evaluate(left.st, expression.right))

\* evaluate, interpreter.rs:44-191
Evaluate(st, expression) ==
    CASE expression.k = "Assign" ->
           Try(Evaluate(st, expression.value),
           LAMBDA value :
           LET a == EnvironmentAssign(value.st.heap, value.st.environment,
                                      expression.name, value.value)
           IN IF a.ok
              THEN Ok([value.st EXCEPT !.heap = a.heap], value.value)
              ELSE ErrRuntime(value.st, a.error))
      [] expression.k = "Binary" ->
           Try(Evaluate(st, expression.left),
           LAMBDA left :
           Try(Evaluate(left.st, expression.right),
           LAMBDA right :
           BinaryOp(right.st, expression.operator, left.value, right.value)))
      [] expression.k = "Call" ->
           Try(Evaluate(st, expression.callee),
           LAMBDA callee :
           Try(EvaluateArguments(callee.st, expression.arguments, <<>>),
           LAMBDA values :
           CASE callee.value.t \notin {"fun", "native"} ->
                  ErrRuntime(values.st, RuntimeError(expression.paren,
                      "Can only call functions and classes."))
             [] Len(expression.arguments) # CallableArity(callee.value) ->
                  ErrRuntime(values.st, RuntimeError(expression.paren,
                      "Expected "
                      \o IntToString(CallableArity(callee.value))
                      \o " arguments but got "
                      \o IntToString(Len(expression.arguments))
                      \o "."))
             [] OTHER ->
                  CallableCall(values.st, callee.value, values.value)))
      [] expression.k = "Grouping" -> Evaluate(st, expression.expression)
      [] expression.k = "Literal" -> Ok(st, expression.value)
      [] expression.k = "Logical" -> EvaluateLogical(st, expression)
      [] expression.k = "Unary" ->
           Try(Evaluate(st, expression.right),
           LAMBDA right :
           CASE expression.operator.type_ = "Minus" ->
                  IF right.value.t = "num"
                  THEN Ok(right.st, NumNeg(right.value))
                  ELSE ErrRuntime(right.st,
                           RuntimeError(expression.operator,
                                        "Operand must be a number."))
             [] expression.operator.type_ = "Bang" ->
                  Ok(right.st, LBool(~is_truthy(right.value))))
      [] expression.k = "Variable" ->
           (LET g == EnvironmentGet(st.heap, st.environment, expression.name)
            IN IF g.ok THEN Ok(st, g.value) ELSE ErrRuntime(st, g.error))

\* a faulty argument loop: the last argument is evaluated first
RECURSIVE EvaluateArgumentsRightToLeft(_, _, _)
EvaluateArgumentsRightToLeft(st, arguments, values) ==
    IF Len(values) = Len(arguments) THEN Ok(st, values)
    ELSE Try(Evaluate(st, arguments[Len(arguments) - Len(values)]),
         LAMBDA v : EvaluateArgumentsRightToLeft(v.st, arguments,
                                                 <<v.value>> \o values))

\* the argument loop of Expr::Call, interpreter.rs:126-129
EvaluateArguments(st, arguments, values) ==
    IF Len(values) = Len(arguments) THEN Ok(st, values)
    ELSE Try(Evaluate(st, arguments[Len(values) + 1]),
         LAMBDA v : EvaluateArguments(v.st, arguments, Append(values, v.value)))

\* Callable::call, token.rs:33-42
CallableCall(st, c, arguments) ==
    IF c.t = "fun" THEN FunctionCall(st, c, arguments)
    ELSE NativeFunctionCall(st, c, arguments)

\* the zip loop of Function::call, token.rs:75-77
RECURSIVE DefineParams(_, _, _, _, _)
DefineParams(h, env, params, arguments, i) ==
    IF i > Len(params) \/ i > Len(arguments) THEN h
    ELSE DefineParams(EnvironmentDefine(h, env, params[i], arguments[i]),
                      env, params, arguments, i + 1)

\* the record of one Function::call: the closure, the scope made for the
\* call with what it binds, the environment before and after, what the body
\* ended with (r) and what the call returned (res)
CallEvent(st, f, arguments, scope, h, r, res) ==
    [ev |-> "call", closure |-> f.closure, scope |-> scope,
     params |-> f.params, arguments |-> arguments,
     bound |-> h[scope].values,
     enclosing |-> h[scope].enclosing, nodes |-> Len(st.heap),
     before |-> st.environment, after |-> res.st.environment,
     body |-> [kind |-> r.kind, value |-> r.value, error |-> r.error],
     result |-> [kind |-> res.kind, value |-> res.value, error |-> res.error]]

\* a faulty call: a Return signal of the body is passed on to the caller
FunctionCallPropagatesReturn(st, f, arguments) ==
    IF st.fuel = 0 THEN OutOfFuel(st) ELSE
    LET env == EnvironmentFromEnv(st.heap, f.closure)
        h   == DefineParams(env.heap, env.env, f.params, arguments, 1)
        Res(r) == IF r.kind = "ok" THEN Ok(r.st, LNone) ELSE r
        Traced(r) ==
            [Res(r) EXCEPT !.st = Emit(@,
                CallEvent(st, f, arguments, env.env, h, r, Res(r)))]
    IN Traced(ExecuteBlock([st EXCEPT !.heap = h, !.fuel = @ - 1],
                           f.body, env.env))

\* a faulty call: the new scope encloses the caller's current environment
FunctionCallDynamicScope(st, f, arguments) ==
    IF st.fuel = 0 THEN OutOfFuel(st) ELSE
    LET env == EnvironmentFromEnv(st.heap, st.environment)
        h   == DefineParams(env.heap, env.env, f.params, arguments, 1)
        Res(r) == CASE r.kind = "return" -> Ok(r.st, r.value)
                    [] r.kind = "ok"     -> Ok(r.st, LNone)
                    [] OTHER             -> r
        Traced(r) ==
            [Res(r) EXCEPT !.st = Emit(@,
                CallEvent(st, f, arguments, env.env, h, r, Res(r)))]
    IN Traced(ExecuteBlock([st EXCEPT !.heap = h, !.fuel = @ - 1],
                           f.body, env.env))

\* Function::call, token.rs:69-86
FunctionCall(st, f, arguments) ==
    IF st.fuel = 0 THEN OutOfFuel(st) ELSE
    LET env == EnvironmentFromEnv(st.heap, f.closure)
        h   == DefineParams(env.heap, env.env, f.params, arguments, 1)
        \* the match on the result r of execute_block
        Res(r) == CASE r.kind = "return" -> Ok(r.st, r.value)
                    [] r.kind = "ok"     -> Ok(r.st, LNone)
                    [] OTHER             -> r
        Traced(r) ==
            [Res(r) EXCEPT !.st = Emit(@,
                CallEvent(st, f, arguments, env.env, h, r, Res(r)))]
    IN Traced(ExecuteBlock([st EXCEPT !.heap = h, !.fuel = @ - 1],
                           f.body, env.env))

\* a faulty Stmt::Function: the closure is a copy of the current node as it
\* is at the declaration
ExecuteFunctionSnapshots(st, statement) ==
    LET copy == Append(st.heap, st.heap[st.environment])
        f == LFunction(Len(copy), statement.params, statement.body)
        h == EnvironmentDefine(copy, st.environment, statement.name, f)
    IN Ok(Emit([st EXCEPT !.heap = h],
               [ev |-> "function", environment |-> st.environment,
                name |-> statement.name.lexeme, closure |-> Len(copy)]),
          LNone)

\* a faulty Stmt::Function: the name is defined in a new scope inside the
\* current one, which nothing refers to
ExecuteFunctionDefinesElsewhere(st, statement) ==
    LET c == EnvironmentClone(st.heap, st.environment)
        f == LFunction(c.env, statement.params, statement.body)
        n == EnvironmentFromEnv(c.heap, st.environment)
        h == EnvironmentDefine(n.heap, n.env, statement.name, f)
    IN Ok(Emit([st EXCEPT !.heap = h],
               [ev |-> "function", environment |-> st.environment,
                name |-> statement.name.lexeme, closure |-> c.env]),
          LNone)

\* execute, the arm Stmt::Function, interpreter.rs:201-210
ExecuteFunction(st, statement) ==
    LET c == EnvironmentClone(st.heap, st.environment)
        f == LFunction(c.env, statement.params, statement.body)
        h == EnvironmentDefine(c.heap, st.environment, statement.name, f)
    IN Ok(Emit([st EXCEPT !.heap = h],
               [ev |-> "function", environment |-> st.environment,
                name |-> statement.name.lexeme, closure |-> c.env]),
          LNone)

\* execute, interpreter.rs:193-247
Execute(st, statement) ==
    LET k == statement.k
        Traced(r) ==
            [r EXCEPT !.st = Emit(@,
                [ev |-> "execute", stmt |-> k, before |-> st.environment,
                 after |-> r.st.environment, outcome |-> r.kind])]
    IN Traced(
       CASE k = "Block" ->
              (LET env == EnvironmentFromEnv(st.heap, st.environment)
               IN ExecuteBlock([st EXCEPT !.heap = env.heap],
                               statement.statements, env.env))
         [] k = "Expression" ->
              Try(Evaluate(st, statement.expression),
              LAMBDA v : Ok(v.st, LNone))
         [] k = "Function" -> ExecuteFunction(st, statement)
         [] k = "If" ->
              Try(Evaluate(st, statement.condition),
              LAMBDA c :
              CASE is_truthy(c.value) -> Execute(c.st, statement.then_branch)
                [] statement.else_branch.k # "None" ->
                     Execute(c.st, statement.else_branch)
                [] OTHER -> Ok(c.st, LNone))
         [] k = "Print" ->
              Try(Evaluate(st, statement.expression),
              LAMBDA v :
              Ok([v.st EXCEPT !.out = Append(@, LiteralToString(v.value))],
                 LNone))
         [] k = "Return" ->
              Try(IF statement.value.k # "None"
                  THEN Evaluate(st, statement.value)
                  ELSE Ok(st, LNone),
              LAMBDA v : ErrReturn(v.st, v.value))
         [] k = "Var" ->
              Try(IF statement.initializer.k # "None"
                  THEN Evaluate(st, statement.initializer)
                  ELSE Ok(st, LNone),
              LAMBDA v :
              LET h == EnvironmentDefine(v.st.heap, v.st.environment,
                                         statement.name, v.value)
              IN Ok(Emit([v.st EXCEPT !.heap = h],
                         [ev |-> "var", environment |-> v.st.environment,
                          name |-> statement.name.lexeme, value |-> v.value,
                          pre |-> v.st.heap, post |-> h]),
                    LNone))
         [] k = "While" -> ExecuteWhile(st, statement))

\* a faulty loop: a Return signal of the body ends the loop as if the
\* condition were false
ExecuteWhileCatchesReturn(st, statement) ==
    LET Body(b) ==
            CASE b.kind = "return" -> Ok(b.st, LNone)
              [] b.kind = "ok" -> ExecuteWhileCatchesReturn(b.st, statement)
              [] OTHER -> b
    IN Try(Evaluate(st, statement.condition),
       LAMBDA c :
       CASE ~is_truthy(c.value) -> Ok(c.st, LNone)
         [] c.st.fuel = 0       -> OutOfFuel(c.st)
         [] OTHER ->
              Body(Execute([c.st EXCEPT !.fuel = @ - 1], statement.body)))

\* the loop of Stmt::While, interpreter.rs:241-243
ExecuteWhile(st, statement) ==
    Try(Evaluate(st, statement.condition),
    LAMBDA c :
    CASE ~is_truthy(c.value) -> Ok(c.st, LNone)
      [] c.st.fuel = 0       -> OutOfFuel(c.st)
      [] OTHER ->
           Try(Execute([c.st EXCEPT !.fuel = @ - 1], statement.body),
           LAMBDA b : ExecuteWhile(b.st, statement)))

\* the closure of execute_block, interpreter.rs:257-262
ExecuteBlockLoop(st, statements, i) ==
    IF i > Len(statements) THEN Ok(st, LNone)
    ELSE Try(Execute(st, statements[i]),
         LAMBDA r : ExecuteBlockLoop(r.st, statements, i + 1))

\* the record of one execute_block: the environment handed in, the scope
\* made for the block, the environment before and after, and the result
BlockEvent(st, block_env, new, after, r) ==
    [ev |-> "execute_block", parent |-> block_env,
     scope |-> new.env, chain |-> Chain(new.heap, new.env),
     nodes |-> <<Len(st.heap), Len(new.heap)>>,
     before |-> st.environment, after |-> after, outcome |-> r.kind]

\* a faulty execute_block: an error or a Return leaves before the second swap
ExecuteBlockNoRestore(st, statements, block_env) ==
    LET new == EnvironmentFromEnv(st.heap, block_env)
        env == st.environment
        Swapped(r) == IF r.kind = "ok" THEN env ELSE r.st.environment
        Restored(r) ==
            [r EXCEPT !.st = Emit([r.st EXCEPT !.environment = Swapped(r)],
                BlockEvent(st, block_env, new, Swapped(r), r))]
    IN Restored(ExecuteBlockLoop(
           [st EXCEPT !.heap = new.heap, !.environment = new.env],
           statements, 1))

\* execute_block, interpreter.rs:249-267
ExecuteBlock(st, statements, block_env) ==
    LET new == EnvironmentFromEnv(st.heap, block_env)
        \* mem::swap: the new scope becomes current, env holds the old one
        env == st.environment
        \* mem::swap back, whatever the result r of the closure is
        Restored(r) ==
            [r EXCEPT !.st = Emit([r.st EXCEPT !.environment = env],
                BlockEvent(st, block_env, new, env, r))]
    IN Restored(ExecuteBlockLoop(
           [st EXCEPT !.heap = new.heap, !.environment = new.env],
           statements, 1))

\* interpret, interpreter.rs:269-275
RECURSIVE InterpretLoop(_, _, _)
InterpretLoop(st, statements, i) ==
    IF i > Len(statements) THEN Ok(st, LNone)
    ELSE Try(Execute(st, statements[i]),
         LAMBDA r : InterpretLoop(r.st, statements, i + 1))

Interpret(st, statements) == InterpretLoop(st, statements, 1)

\* Interpreter::new, interpreter.rs:33-42, with setup_native_functions
InterpreterNew ==
    LET g  == EnvironmentNew(<<>>)
        h1 == EnvironmentDefine(g.heap, g.env,
                                Token("Fun", "clock", NoLiteral, 0),
                                LNative("clock", 0))
        e  == EnvironmentFromEnv(h1, g.env)
    IN [heap |-> e.heap, globals |-> g.env, environment |-> e.env]

(***************************************************************************)
(* Diagnostics (lox_error.rs)                                              *)
(***************************************************************************)
ParserErrorToString(e) ==
    IF e.token.type_ = "Eof"
    THEN "[line " \o IntToString(e.token.line) \o "] Error at end: " \o e.message
    ELSE "[line " \o IntToString(e.token.line) \o "] Error at '"
         \o e.token.lexeme \o "': " \o e.message

RuntimeErrorToString(e) ==
    e.message \o "\n[line " \o IntToString(e.token.line) \o "]"

ScannerErrorToString(e) ==
    "[line " \o IntToString(e.line) \o "] Error: " \o e.message

(***************************************************************************)
(* Driver (lox.rs)                                                         *)
(***************************************************************************)
\* a faulty run: each declaration is executed as soon as it is parsed
RECURSIVE LoxRunInterleavedLoop(_, _)
LoxRunInterleavedLoop(st, p) ==
    LET d == ParserDeclaration(p)
        r == Execute(st, d.node)
    IN CASE ParserIsAtEnd(p) -> [kind |-> "ok", error |-> NoError, st |-> st]
         [] ~d.ok -> [kind |-> "parser", error |-> d.error, st |-> st]
         [] r.kind = "ok" -> LoxRunInterleavedLoop(r.st, d.p)
         [] OTHER -> [kind |-> r.kind, error |-> r.error, st |-> r.st]

LoxRunInterleaved(st, source) ==
    LET tokens == ScanTokens(ScannerNew(source))
    IN IF tokens.ok
       THEN LoxRunInterleavedLoop(st, ParserNew(tokens.tokens))
       ELSE [kind |-> "scanner", error |-> tokens.error, st |-> st]

\* the ? operator of run on the Result of the scanner and of the parser:
\* the error becomes the LoxError of that kind (lox_error.rs, impl From) and
\* is returned, the interpreter untouched
LoxTry(r, kind, st, Then(_)) ==
    IF r.ok THEN Then(r) ELSE [kind |-> kind, error |-> r.error, st |-> st]

\* run, lox.rs:45-54: the result kind is "ok", "scanner", "parser",
\* "runtime", "return" or "fuel"
LoxRun(st, source) ==
    LET Interpreted(r) == [kind |-> r.kind, error |-> r.error, st |-> r.st]
    IN LoxTry(ScanTokens(ScannerNew(source)), "scanner", st,
       LAMBDA tokens :
       LoxTry(ParserParse(ParserNew(tokens.tokens)), "parser", st,
       LAMBDA statements :
       Interpreted(Interpret(st, statements.statements))))

\* impl Display for LoxError; the Return variant is unreachable!()
LoxErrorToString(r) ==
    CASE r.kind = "runtime" -> RuntimeErrorToString(r.error)
      [] r.kind = "scanner" -> ScannerErrorToString(r.error)
      [] r.kind = "parser"  -> ParserErrorToString(r.error)

(***************************************************************************)
(* The inputs: source texts run as a file, and the ones also typed at the  *)
(* prompt.                                                                 *)
(***************************************************************************)
\* var a = 1;
SrcVarA ==
    <<"v", "a", "r", " ", "a", " ", "=", " ", "1", ";">>

\* a = a + 1; print a;
SrcIncA ==
    <<"a", " ", "=", " ", "a", " ", "+", " ", "1", ";", " ", "p", "r", "i",
      "n", "t", " ", "a", ";">>

\* var a = 2; var a = a + 1; print a;
SrcRedef ==
    <<"v", "a", "r", " ", "a", " ", "=", " ", "2", ";", " ", "v", "a", "r",
      " ", "a", " ", "=", " ", "a", " ", "+", " ", "1", ";", " ", "p", "r",
      "i", "n", "t", " ", "a", ";">>

\* var a = 1; { var a = 2; print a; } print a;
SrcShadow ==
    <<"v", "a", "r", " ", "a", " ", "=", " ", "1", ";", " ", "{", " ", "v",
      "a", "r", " ", "a", " ", "=", " ", "2", ";", " ", "p", "r", "i", "n",
      "t", " ", "a", ";", " ", "}", " ", "p", "r", "i", "n", "t", " ", "a",
      ";">>

\* fun make() { var i = 0; fun inc() { i = i + 1; return i; } return inc; } var c = make();
SrcMake ==
    <<"f", "u", "n", " ", "m", "a", "k", "e", "(", ")", " ", "{", " ", "v",
      "a", "r", " ", "i", " ", "=", " ", "0", ";", " ", "f", "u", "n", " ",
      "i", "n", "c", "(", ")", " ", "{", " ", "i", " ", "=", " ", "i", " ",
      "+", " ", "1", ";", " ", "r", "e", "t", "u", "r", "n", " ", "i", ";",
      " ", "}", " ", "r", "e", "t", "u", "r", "n", " ", "i", "n", "c", ";",
      " ", "}", " ", "v", "a", "r", " ", "c", " ", "=", " ", "m", "a", "k",
      "e", "(", ")", ";">>

\* print c();
SrcTick ==
    <<"p", "r", "i", "n", "t", " ", "c", "(", ")", ";">>

\* a = 5; print ;
SrcParseErr ==
    <<"a", " ", "=", " ", "5", ";", " ", "p", "r", "i", "n", "t", " ", ";">>

\* a = 6; @
SrcScanErr ==
    <<"a", " ", "=", " ", "6", ";", " ", "@">>

\* a = 7; print "a" + 1; a = 8;
SrcRtErr ==
    <<"a", " ", "=", " ", "7", ";", " ", "p", "r", "i", "n", "t", " ",
      "\"", "a", "\"", " ", "+", " ", "1", ";", " ", "a", " ", "=", " ",
      "8", ";">>

\* print ; var ;
SrcTwoErrs ==
    <<"p", "r", "i", "n", "t", " ", ";", " ", "v", "a", "r", " ", ";">>

\* return 1;
SrcRetTop ==
    <<"r", "e", "t", "u", "r", "n", " ", "1", ";">>

\* { var b = 3; a = b; { var a = 4; } }
SrcBlock ==
    <<"{", " ", "v", "a", "r", " ", "b", " ", "=", " ", "3", ";", " ", "a",
      " ", "=", " ", "b", ";", " ", "{", " ", "v", "a", "r", " ", "a", " ",
      "=", " ", "4", ";", " ", "}", " ", "}">>

\* fun f(n) { if (n <= 1) return 1; return n * f(n - 1); } print f(3);
SrcFact ==
    <<"f", "u", "n", " ", "f", "(", "n", ")", " ", "{", " ", "i", "f", " ",
      "(", "n", " ", "<", "=", " ", "1", ")", " ", "r", "e", "t", "u", "r",
      "n", " ", "1", ";", " ", "r", "e", "t", "u", "r", "n", " ", "n", " ",
      "*", " ", "f", "(", "n", " ", "-", " ", "1", ")", ";", " ", "}", " ",
      "p", "r", "i", "n", "t", " ", "f", "(", "3", ")", ";">>

\* fun make() { var i = 0; fun inc() { i = i + 1; return i; } return inc; } var c = make(); print c(); print c();
SrcCounter ==
    <<"f", "u", "n", " ", "m", "a", "k", "e", "(", ")", " ", "{", " ", "v",
      "a", "r", " ", "i", " ", "=", " ", "0", ";", " ", "f", "u", "n", " ",
      "i", "n", "c", "(", ")", " ", "{", " ", "i", " ", "=", " ", "i", " ",
      "+", " ", "1", ";", " ", "r", "e", "t", "u", "r", "n", " ", "i", ";",
      " ", "}", " ", "r", "e", "t", "u", "r", "n", " ", "i", "n", "c", ";",
      " ", "}", " ", "v", "a", "r", " ", "c", " ", "=", " ", "m", "a", "k",
      "e", "(", ")", ";", " ", "p", "r", "i", "n", "t", " ", "c", "(", ")",
      ";", " ", "p", "r", "i", "n", "t", " ", "c", "(", ")", ";">>

\* for (var i = 0; i < 3; i = i + 1) print i;
SrcFor ==
    <<"f", "o", "r", " ", "(", "v", "a", "r", " ", "i", " ", "=", " ", "0",
      ";", " ", "i", " ", "<", " ", "3", ";", " ", "i", " ", "=", " ", "i",
      " ", "+", " ", "1", ")", " ", "p", "r", "i", "n", "t", " ", "i", ";">>

\* print clock() >= 0;
SrcClock ==
    <<"p", "r", "i", "n", "t", " ", "c", "l", "o", "c", "k", "(", ")", " ",
      ">", "=", " ", "0", ";">>

\* var x = 1; fun f(x) { fun g() { print x; } return g; } var g = f(2); { var x = 3; g(); } fun h() { print y; } { var y = 4; h(); }
SrcLexical ==
    <<"v", "a", "r", " ", "x", " ", "=", " ", "1", ";", " ", "f", "u", "n",
      " ", "f", "(", "x", ")", " ", "{", " ", "f", "u", "n", " ", "g", "(",
      ")", " ", "{", " ", "p", "r", "i", "n", "t", " ", "x", ";", " ", "}",
      " ", "r", "e", "t", "u", "r", "n", " ", "g", ";", " ", "}", " ", "v",
      "a", "r", " ", "g", " ", "=", " ", "f", "(", "2", ")", ";", " ", "{",
      " ", "v", "a", "r", " ", "x", " ", "=", " ", "3", ";", " ", "g", "(",
      ")", ";", " ", "}", " ", "f", "u", "n", " ", "h", "(", ")", " ", "{",
      " ", "p", "r", "i", "n", "t", " ", "y", ";", " ", "}", " ", "{", " ",
      "v", "a", "r", " ", "y", " ", "=", " ", "4", ";", " ", "h", "(", ")",
      ";", " ", "}">>

\* { var x = 0; fun set(v) { x = v; } fun get() { return x; } set(7); print get(); print x; }
SrcShared ==
    <<"{", " ", "v", "a", "r", " ", "x", " ", "=", " ", "0", ";", " ", "f",
      "u", "n", " ", "s", "e", "t", "(", "v", ")", " ", "{", " ", "x", " ",
      "=", " ", "v", ";", " ", "}", " ", "f", "u", "n", " ", "g", "e", "t",
      "(", ")", " ", "{", " ", "r", "e", "t", "u", "r", "n", " ", "x", ";",
      " ", "}", " ", "s", "e", "t", "(", "7", ")", ";", " ", "p", "r", "i",
      "n", "t", " ", "g", "e", "t", "(", ")", ";", " ", "p", "r", "i", "n",
      "t", " ", "x", ";", " ", "}">>

\* fun h() { var n = 0; while (true) { n = n + 1; if (n > 1) { { return n; } } } print "no"; } print h();
SrcUnwind ==
    <<"f", "u", "n", " ", "h", "(", ")", " ", "{", " ", "v", "a", "r", " ",
      "n", " ", "=", " ", "0", ";", " ", "w", "h", "i", "l", "e", " ", "(",
      "t", "r", "u", "e", ")", " ", "{", " ", "n", " ", "=", " ", "n", " ",
      "+", " ", "1", ";", " ", "i", "f", " ", "(", "n", " ", ">", " ", "1",
      ")", " ", "{", " ", "{", " ", "r", "e", "t", "u", "r", "n", " ", "n",
      ";", " ", "}", " ", "}", " ", "}", " ", "p", "r", "i", "n", "t", " ",
      "\"", "n", "o", "\"", ";", " ", "}", " ", "p", "r", "i", "n", "t",
      " ", "h", "(", ")", ";">>

\* fun g() { return 1; print "no"; } fun h() { var r = g(); print r; return 2; } print h(); fun k() { } print k();
SrcInner ==
    <<"f", "u", "n", " ", "g", "(", ")", " ", "{", " ", "r", "e", "t", "u",
      "r", "n", " ", "1", ";", " ", "p", "r", "i", "n", "t", " ", "\"",
      "n", "o", "\"", ";", " ", "}", " ", "f", "u", "n", " ", "h", "(",
      ")", " ", "{", " ", "v", "a", "r", " ", "r", " ", "=", " ", "g", "(",
      ")", ";", " ", "p", "r", "i", "n", "t", " ", "r", ";", " ", "r", "e",
      "t", "u", "r", "n", " ", "2", ";", " ", "}", " ", "p", "r", "i", "n",
      "t", " ", "h", "(", ")", ";", " ", "f", "u", "n", " ", "k", "(", ")",
      " ", "{", " ", "}", " ", "p", "r", "i", "n", "t", " ", "k", "(", ")",
      ";">>

\* fun p(x, y) { print x; print y; } p(1, 2);
SrcParams ==
    <<"f", "u", "n", " ", "p", "(", "x", ",", " ", "y", ")", " ", "{", " ",
      "p", "r", "i", "n", "t", " ", "x", ";", " ", "p", "r", "i", "n", "t",
      " ", "y", ";", " ", "}", " ", "p", "(", "1", ",", " ", "2", ")", ";">>

\* fun g(x) { { var t = 1; { print -x; } } } { g("s"); }
\* print 1;
SrcDeepErr ==
    <<"f", "u", "n", " ", "g", "(", "x", ")", " ", "{", " ", "{", " ", "v",
      "a", "r", " ", "t", " ", "=", " ", "1", ";", " ", "{", " ", "p", "r",
      "i", "n", "t", " ", "-", "x", ";", " ", "}", " ", "}", " ", "}", " ",
      "{", " ", "g", "(", "\"", "s", "\"", ")", ";", " ", "}", "\n", "p",
      "r", "i", "n", "t", " ", "1", ";">>

\* var a = 1;
\* print "abc
SrcUnterminated ==
    <<"v", "a", "r", " ", "a", " ", "=", " ", "1", ";", "\n", "p", "r",
      "i", "n", "t", " ", "\"", "a", "b", "c">>

\* var t = ""; (t = t + "c")(t = t + "a", t = t + "b");
SrcNotCallable ==
    <<"v", "a", "r", " ", "t", " ", "=", " ", "\"", "\"", ";", " ", "(",
      "t", " ", "=", " ", "t", " ", "+", " ", "\"", "c", "\"", ")", "(",
      "t", " ", "=", " ", "t", " ", "+", " ", "\"", "a", "\"", ",", " ",
      "t", " ", "=", " ", "t", " ", "+", " ", "\"", "b", "\"", ")", ";">>

\* var t = ""; fun f(x) { t = t + "x"; } f(t = t + "a", t = t + "b");
SrcArity ==
    <<"v", "a", "r", " ", "t", " ", "=", " ", "\"", "\"", ";", " ", "f",
      "u", "n", " ", "f", "(", "x", ")", " ", "{", " ", "t", " ", "=", " ",
      "t", " ", "+", " ", "\"", "x", "\"", ";", " ", "}", " ", "f", "(",
      "t", " ", "=", " ", "t", " ", "+", " ", "\"", "a", "\"", ",", " ",
      "t", " ", "=", " ", "t", " ", "+", " ", "\"", "b", "\"", ")", ";">>

\* var n = 0; print 1 or (n = n + 1); print nil or (n = n + 10); print nil and (n = n + 100); print "s" and (n = n + 1000); print false or false; print n;
SrcLogic ==
    <<"v", "a", "r", " ", "n", " ", "=", " ", "0", ";", " ", "p", "r", "i",
      "n", "t", " ", "1", " ", "o", "r", " ", "(", "n", " ", "=", " ", "n",
      " ", "+", " ", "1", ")", ";", " ", "p", "r", "i", "n", "t", " ", "n",
      "i", "l", " ", "o", "r", " ", "(", "n", " ", "=", " ", "n", " ", "+",
      " ", "1", "0", ")", ";", " ", "p", "r", "i", "n", "t", " ", "n", "i",
      "l", " ", "a", "n", "d", " ", "(", "n", " ", "=", " ", "n", " ", "+",
      " ", "1", "0", "0", ")", ";", " ", "p", "r", "i", "n", "t", " ",
      "\"", "s", "\"", " ", "a", "n", "d", " ", "(", "n", " ", "=", " ",
      "n", " ", "+", " ", "1", "0", "0", "0", ")", ";", " ", "p", "r", "i",
      "n", "t", " ", "f", "a", "l", "s", "e", " ", "o", "r", " ", "f", "a",
      "l", "s", "e", ";", " ", "p", "r", "i", "n", "t", " ", "n", ";">>

\* fun h() { while ((t = t + "c") and true) { if (n > 0) { { return n; t = t + "x"; } t = t + "y"; } n = n + 1; t = t + "z"; } t = t + "w"; } var t = ""; var n = 0; print h(); print t;
SrcRetNested ==
    <<"f", "u", "n", " ", "h", "(", ")", " ", "{", " ", "w", "h", "i", "l",
      "e", " ", "(", "(", "t", " ", "=", " ", "t", " ", "+", " ", "\"",
      "c", "\"", ")", " ", "a", "n", "d", " ", "t", "r", "u", "e", ")",
      " ", "{", " ", "i", "f", " ", "(", "n", " ", ">", " ", "0", ")", " ",
      "{", " ", "{", " ", "r", "e", "t", "u", "r", "n", " ", "n", ";", " ",
      "t", " ", "=", " ", "t", " ", "+", " ", "\"", "x", "\"", ";", " ",
      "}", " ", "t", " ", "=", " ", "t", " ", "+", " ", "\"", "y", "\"",
      ";", " ", "}", " ", "n", " ", "=", " ", "n", " ", "+", " ", "1", ";",
      " ", "t", " ", "=", " ", "t", " ", "+", " ", "\"", "z", "\"", ";",
      " ", "}", " ", "t", " ", "=", " ", "t", " ", "+", " ", "\"", "w",
      "\"", ";", " ", "}", " ", "v", "a", "r", " ", "t", " ", "=", " ",
      "\"", "\"", ";", " ", "v", "a", "r", " ", "n", " ", "=", " ", "0",
      ";", " ", "p", "r", "i", "n", "t", " ", "h", "(", ")", ";", " ", "p",
      "r", "i", "n", "t", " ", "t", ";">>

\* { var k = 2; fun f() { k = k - 1; return k < 1 or f(); } print f(); } print f;
SrcRecBlock ==
    <<"{", " ", "v", "a", "r", " ", "k", " ", "=", " ", "2", ";", " ", "f",
      "u", "n", " ", "f", "(", ")", " ", "{", " ", "k", " ", "=", " ", "k",
      " ", "-", " ", "1", ";", " ", "r", "e", "t", "u", "r", "n", " ", "k",
      " ", "<", " ", "1", " ", "o", "r", " ", "f", "(", ")", ";", " ", "}",
      " ", "p", "r", "i", "n", "t", " ", "f", "(", ")", ";", " ", "}", " ",
      "p", "r", "i", "n", "t", " ", "f", ";">>

\* fun o() { var k = 2; fun g() { k = k - 1; return k < 1 or g(); } return g(); } print o();
SrcRecFun ==
    <<"f", "u", "n", " ", "o", "(", ")", " ", "{", " ", "v", "a", "r", " ",
      "k", " ", "=", " ", "2", ";", " ", "f", "u", "n", " ", "g", "(", ")",
      " ", "{", " ", "k", " ", "=", " ", "k", " ", "-", " ", "1", ";", " ",
      "r", "e", "t", "u", "r", "n", " ", "k", " ", "<", " ", "1", " ", "o",
      "r", " ", "g", "(", ")", ";", " ", "}", " ", "r", "e", "t", "u", "r",
      "n", " ", "g", "(", ")", ";", " ", "}", " ", "p", "r", "i", "n", "t",
      " ", "o", "(", ")", ";">>

\* var a = 1; { fun f() { return a; } print f(); var a = 2; print f(); } print a;
SrcLateVar ==
    <<"v", "a", "r", " ", "a", " ", "=", " ", "1", ";", " ", "{", " ", "f",
      "u", "n", " ", "f", "(", ")", " ", "{", " ", "r", "e", "t", "u", "r",
      "n", " ", "a", ";", " ", "}", " ", "p", "r", "i", "n", "t", " ", "f",
      "(", ")", ";", " ", "v", "a", "r", " ", "a", " ", "=", " ", "2", ";",
      " ", "p", "r", "i", "n", "t", " ", "f", "(", ")", ";", " ", "}", " ",
      "p", "r", "i", "n", "t", " ", "a", ";">>

\* var t = ""; 
ForT ==
    <<"v", "a", "r", " ", "t", " ", "=", " ", "\"", "\"", ";", " ">>

\* var i = 0; 
ForI ==
    <<"v", "a", "r", " ", "i", " ", "=", " ", "0", ";", " ">>

\* var i = (t = t + "s") and 0; 
ForInitVar ==
    <<"v", "a", "r", " ", "i", " ", "=", " ", "(", "t", " ", "=", " ", "t",
      " ", "+", " ", "\"", "s", "\"", ")", " ", "a", "n", "d", " ", "0",
      ";", " ">>

\* i = (t = t + "s") and 0; 
ForInitExpr ==
    <<"i", " ", "=", " ", "(", "t", " ", "=", " ", "t", " ", "+", " ",
      "\"", "s", "\"", ")", " ", "a", "n", "d", " ", "0", ";", " ">>

\* ; 
ForInitNone ==
    <<";", " ">>

\* (t = t + "c") and i < 2
ForCond ==
    <<"(", "t", " ", "=", " ", "t", " ", "+", " ", "\"", "c", "\"", ")",
      " ", "a", "n", "d", " ", "i", " ", "<", " ", "2">>

\* i = (t = t + "n") and i + 1
ForInc ==
    <<"i", " ", "=", " ", "(", "t", " ", "=", " ", "t", " ", "+", " ",
      "\"", "n", "\"", ")", " ", "a", "n", "d", " ", "i", " ", "+", " ",
      "1">>

\* t = t + "b"; 
ForBody ==
    <<"t", " ", "=", " ", "t", " ", "+", " ", "\"", "b", "\"", ";", " ">>

\* if (i >= 2) return; 
ForExit ==
    <<"i", "f", " ", "(", "i", " ", ">", "=", " ", "2", ")", " ", "r", "e",
      "t", "u", "r", "n", ";", " ">>

\* i = i + 1; 
ForStep ==
    <<"i", " ", "=", " ", "i", " ", "+", " ", "1", ";", " ">>

\* fun f() { 
ForFun ==
    <<"f", "u", "n", " ", "f", "(", ")", " ", "{", " ">>

\* } f(); 
ForCall ==
    <<"}", " ", "f", "(", ")", ";", " ">>

\* print t; print i;
ForAfter ==
    <<"p", "r", "i", "n", "t", " ", "t", ";", " ", "p", "r", "i", "n", "t",
      " ", "i", ";">>

\* for (init; cond; inc) { body }, each clause present or absent; without
\* a condition the body leaves the loop by a return
ForLoop(init, cond, inc) ==
    <<"f", "o", "r", " ", "(">>
    \o (CASE init = "var"  -> ForInitVar
          [] init = "expr" -> ForInitExpr
          [] init = "none" -> ForInitNone)
    \o (IF cond THEN ForCond ELSE <<>>) \o <<";", " ">>
    \o (IF inc THEN ForInc ELSE <<>>) \o <<")", " ", "{", " ">>
    \o ForBody
    \o (IF cond THEN <<>> ELSE ForExit)
    \o (IF inc THEN <<>> ELSE ForStep)
    \o <<"}", " ">>

\* the loop in a program that declares t, and i unless the loop does, runs
\* the loop (in a function when it ends by a return) and prints t and i
ForProgram(init, cond, inc) ==
    ForT \o (IF init = "var" THEN <<>> ELSE ForI)
    \o (IF cond THEN ForLoop(init, cond, inc)
        ELSE ForFun \o ForLoop(init, cond, inc) \o ForCall)
    \o ForAfter

FileSources ==
    {"var_a", "inc_a", "redef", "shadow", "make", "tick", "parse_err",
     "scan_err", "rt_err", "two_errs", "ret_top", "block", "fact",
     "counter", "for", "clock", "lexical", "shared", "unwind", "inner",
     "params", "deep_err", "unterminated", "not_callable", "arity",
     "logic", "ret_nested", "rec_block", "rec_fun", "late_var",
     "for_var_cn", "for_var_c-", "for_var_-n", "for_var_--",
     "for_expr_cn", "for_expr_c-", "for_expr_-n", "for_expr_--",
     "for_none_cn", "for_none_c-", "for_none_-n", "for_none_--"}

ReplSources ==
    {"var_a", "inc_a", "redef", "shadow", "make", "tick", "parse_err",
     "scan_err", "rt_err", "two_errs", "ret_top", "block"}

Source(name) ==
    CASE name = "var_a" -> SrcVarA
      [] name = "inc_a" -> SrcIncA
      [] name = "redef" -> SrcRedef
      [] name = "shadow" -> SrcShadow
      [] name = "make" -> SrcMake
      [] name = "tick" -> SrcTick
      [] name = "parse_err" -> SrcParseErr
      [] name = "scan_err" -> SrcScanErr
      [] name = "rt_err" -> SrcRtErr
      [] name = "two_errs" -> SrcTwoErrs
      [] name = "ret_top" -> SrcRetTop
      [] name = "block" -> SrcBlock
      [] name = "fact" -> SrcFact
      [] name = "counter" -> SrcCounter
      [] name = "for" -> SrcFor
      [] name = "clock" -> SrcClock
      [] name = "lexical" -> SrcLexical
      [] name = "shared" -> SrcShared
      [] name = "unwind" -> SrcUnwind
      [] name = "inner" -> SrcInner
      [] name = "params" -> SrcParams
      [] name = "deep_err" -> SrcDeepErr
      [] name = "unterminated" -> SrcUnterminated
      [] name = "not_callable" -> SrcNotCallable
      [] name = "arity" -> SrcArity
      [] name = "logic" -> SrcLogic
      [] name = "ret_nested" -> SrcRetNested
      [] name = "rec_block" -> SrcRecBlock
      [] name = "rec_fun" -> SrcRecFun
      [] name = "late_var" -> SrcLateVar
      [] name = "for_var_cn" -> ForProgram("var", TRUE, TRUE)
      [] name = "for_var_c-" -> ForProgram("var", TRUE, FALSE)
      [] name = "for_var_-n" -> ForProgram("var", FALSE, TRUE)
      [] name = "for_var_--" -> ForProgram("var", FALSE, FALSE)
      [] name = "for_expr_cn" -> ForProgram("expr", TRUE, TRUE)
      [] name = "for_expr_c-" -> ForProgram("expr", TRUE, FALSE)
      [] name = "for_expr_-n" -> ForProgram("expr", FALSE, TRUE)
      [] name = "for_expr_--" -> ForProgram("expr", FALSE, FALSE)
      [] name = "for_none_cn" -> ForProgram("none", TRUE, TRUE)
      [] name = "for_none_c-" -> ForProgram("none", TRUE, FALSE)
      [] name = "for_none_-n" -> ForProgram("none", FALSE, TRUE)
      [] name = "for_none_--" -> ForProgram("none", FALSE, FALSE)

\* the readings of the system clock
ClockReadings == {1, 2}

(***************************************************************************)
(* Spec: a session of the interpreter (lox.rs)                             *)
(***************************************************************************)
NoOp == [op |-> "none"]

NoResult == [ok |-> FALSE, kind |-> "none"]

\* the variables of the specifications that are not running
NoSession(m) ==
    /\ mode = m
    /\ heap = <<>>
    /\ globals = 0
    /\ environment = 0
    /\ out = <<>>
    /\ diag = <<>>
    /\ trace = <<>>
    /\ last = [source |-> "", kind |-> "none", error |-> NoError]
    /\ nlines = 0

NoEnv ==
    /\ eheap = <<>>
    /\ holders = <<>>
    /\ origin = <<>>
    /\ lastOp = NoOp

NoFront ==
    /\ input = <<>>
    /\ scanned = NoResult
    /\ parsed = NoResult

NoMain ==
    /\ running = "none"
    /\ stdout = <<>>
    /\ exit_code = -1

NoTokens ==
    /\ given = <<>>
    /\ synced = NoResult

\* Lox::new
Init ==
    /\ mode = "start"
    /\ heap = InterpreterNew.heap
    /\ globals = InterpreterNew.globals
    /\ environment = InterpreterNew.environment
    /\ out = <<>>
    /\ diag = <<>>
    /\ trace = <<>>
    /\ last = [source |-> "", kind |-> "none", error |-> NoError]
    /\ nlines = 0
    /\ eheap = <<>>
    /\ holders = <<>>
    /\ origin = <<>>
    /\ lastOp = NoOp
    /\ NoFront
    /\ NoMain
    /\ NoTokens

RunState(clock) ==
    [heap |-> heap, environment |-> environment, out |-> <<>>,
     trace |-> <<>>, fuel |-> MaxFuel, clock |-> clock]

\* the interpreter and the streams after Lox::run returned r
Ran(name, r) ==
    /\ heap' = r.st.heap
    /\ environment' = r.st.environment
    /\ out' = r.st.out
    /\ trace' = r.st.trace
    /\ last' = [source |-> name, kind |-> r.kind, error |-> r.error]
    /\ nlines' = nlines + 1
    /\ UNCHANGED <<globals, evars, fvars, mvars, tvars>>

\* Lox::run_file, lox.rs:19-22
RunFile(name, clock) ==
    /\ mode = "start"
    /\ \E r \in {LoxRun(RunState(clock), Source(name))} :
          /\ Ran(name, r)
          /\ diag' = <<>>
          /\ mode' = IF r.kind = "fuel" THEN "exhausted" ELSE "exited"

\* Lox::run_prompt before the first line, lox.rs:25-29
StartPrompt ==
    /\ mode = "start"
    /\ mode' = "repl"
    /\ UNCHANGED <<heap, globals, environment, out, diag, trace, last, nlines,
                   evars, fvars, mvars, tvars>>

\* one iteration of the loop of Lox::run_prompt, lox.rs:31-41
PromptLine(name, clock) ==
    /\ mode = "repl"
    /\ nlines < MaxLines
    /\ \E r \in {LoxRun(RunState(clock), Source(name))} :
          /\ Ran(name, r)
          /\ diag' = IF r.kind \in {"scanner", "parser", "runtime"}
                     THEN <<LoxErrorToString(r)>> ELSE <<>>
          /\ mode' = CASE r.kind = "return" -> "panicked"
                       [] r.kind = "fuel"   -> "exhausted"
                       [] OTHER             -> "repl"

\* end of input, lox.rs:31 and 42
PromptEof ==
    /\ mode = "repl"
    /\ mode' = "exited"
    /\ UNCHANGED <<heap, globals, environment, out, diag, trace, last, nlines,
                   evars, fvars, mvars, tvars>>

Next ==
    \/ \E name \in FileSources, clock \in ClockReadings : RunFile(name, clock)
    \/ StartPrompt
    \/ \E name \in ReplSources, clock \in ClockReadings : PromptLine(name, clock)
    \/ PromptEof

Spec == Init /\ [][Next]_vars

(***************************************************************************)
(* EnvSpec: the operations of Environment applied through any handle       *)
(***************************************************************************)
EnvNames == {"a", "b"}
EnvValues == {LNumber(1), LNumber(2)}

Name(lexeme) == Token("Identifier", lexeme, NoLiteral, 1)

EnvInit ==
    /\ eheap = EnvironmentNew(<<>>).heap
    /\ holders = <<EnvironmentNew(<<>>).env>>
    /\ origin = <<[how |-> "new", of |-> 0]>>
    /\ lastOp = NoOp
    /\ mode = "env"
    /\ heap = <<>>
    /\ globals = 0
    /\ environment = 0
    /\ out = <<>>
    /\ diag = <<>>
    /\ trace = <<>>
    /\ last = [source |-> "", kind |-> "none", error |-> NoError]
    /\ nlines = 0
    /\ NoFront
    /\ NoMain
    /\ NoTokens

Op(op, i, name, value, ok, result, error) ==
    [op |-> op, holder |-> i, name |-> name, value |-> value, ok |-> ok,
     result |-> result, error |-> error, pre |-> eheap]

\* Environment::from_env(&holders[i])
OpFromEnv(i) ==
    /\ Len(holders) < MaxHolders
    /\ Len(eheap) < MaxNodes
    /\ LET r == EnvironmentFromEnv(eheap, holders[i])
       IN /\ eheap' = r.heap
          /\ holders' = Append(holders, r.env)
    /\ origin' = Append(origin, [how |-> "from_env", of |-> i])
    /\ lastOp' = Op("from_env", i, "", LNone, TRUE, LNone, NoError)
    /\ UNCHANGED <<svars, fvars, mvars, tvars>>

\* holders[i].clone()
OpClone(i) ==
    /\ Len(holders) < MaxHolders
    /\ LET r == EnvironmentClone(eheap, holders[i])
       IN /\ eheap' = r.heap
          /\ holders' = Append(holders, r.env)
    /\ origin' = Append(origin, [how |-> "clone", of |-> i])
    /\ lastOp' = Op("clone", i, "", LNone, TRUE, LNone, NoError)
    /\ UNCHANGED <<svars, fvars, mvars, tvars>>

\* holders[i].define(name, value)
OpDefine(i, name, value) ==
    /\ eheap' = EnvironmentDefine(eheap, holders[i], Name(name), value)
    /\ lastOp' = Op("define", i, name, value, TRUE, LNone, NoError)
    /\ UNCHANGED <<holders, origin, svars, fvars, mvars, tvars>>

\* holders[i].assign(name, value)
OpAssign(i, name, value) ==
    /\ LET r == EnvironmentAssign(eheap, holders[i], Name(name), value)
       IN /\ eheap' = r.heap
          /\ lastOp' = Op("assign", i, name, value, r.ok, LNone,
                          IF r.ok THEN NoError ELSE r.error)
    /\ UNCHANGED <<holders, origin, svars, fvars, mvars, tvars>>

\* holders[i].get(name)
OpGet(i, name) ==
    /\ LET r == EnvironmentGet(eheap, holders[i], Name(name))
       IN lastOp' = Op("get", i, name, LNone, r.ok,
                       IF r.ok THEN r.value ELSE LNone,
                       IF r.ok THEN NoError ELSE r.error)
    /\ UNCHANGED <<eheap, holders, origin, svars, fvars, mvars, tvars>>

EnvNext ==
    \/ \E i \in 1..Len(holders) : OpFromEnv(i)
    \/ \E i \in 1..Len(holders) : OpClone(i)
    \/ \E i \in 1..Len(holders), name \in EnvNames, value \in EnvValues :
           OpDefine(i, name, value)
    \/ \E i \in 1..Len(holders), name \in EnvNames, value \in EnvValues :
           OpAssign(i, name, value)
    \/ \E i \in 1..Len(holders), name \in EnvNames : OpGet(i, name)

EnvSpec == EnvInit /\ [][EnvNext]_vars

(***************************************************************************)
(* FrontSpec: the scanner and the parser applied to a source text          *)
(***************************************************************************)
\* the characters the texts are made of: a letter, a digit, a line break, a
\* quote, a slash, a space, a parenthesis and a character of no token
FrontAlphabet == {"a", "1", "\n", "\"", "/", " ", "(", "@"}

RECURSIVE Texts(_)
Texts(n) ==
    IF n = 0 THEN {<<>>}
    ELSE Texts(n - 1)
         \cup {Append(t, c) : t \in {u \in Texts(n - 1) : Len(u) = n - 1},
                              c \in FrontAlphabet}

FrontTexts == Texts(MaxText)

\* n times the character c, with commas between
Listed(c, n) == [i \in 1..(IF n = 0 THEN 0 ELSE 2 * n - 1) |->
                    IF i % 2 = 1 THEN c ELSE ","]

\* fun f(a,a,..,a){} with n parameters
FunctionText(n) ==
    <<"f", "u", "n", " ", "f", "(">> \o Listed("a", n) \o <<")", "{", "}">>

\* f(1,1,..,1); with n arguments
CallText(n) == <<"f", "(">> \o Listed("1", n) \o <<")", ";">>

\* the texts with no, one, 255 and 256 parameters or arguments
LimitTexts ==
    {FunctionText(n) : n \in {0, 1, 255, 256}}
    \cup {CallText(n) : n \in {0, 1, 255, 256}}

FrontInit ==
    /\ NoSession("front")
    /\ NoEnv
    /\ NoFront
    /\ NoMain
    /\ NoTokens

\* Scanner::new(source).scan_tokens()
FrontScan(source) ==
    /\ scanned = NoResult
    /\ input' = source
    /\ scanned' = ScanTokens(ScannerNew(source))
    /\ UNCHANGED <<parsed, svars, evars, mvars, tvars>>

\* Parser::new(&tokens).parse()
FrontParse ==
    /\ scanned.ok
    /\ parsed = NoResult
    /\ parsed' = ParserParse(ParserNew(scanned.tokens))
    /\ UNCHANGED <<input, scanned, svars, evars, mvars, tvars>>

FrontNext ==
    \/ \E source \in FrontTexts \cup LimitTexts : FrontScan(source)
    \/ FrontParse

FrontSpec == FrontInit /\ [][FrontNext]_vars

(***************************************************************************)
(* TokenSpec: the parser applied to a token list.  Parser::new takes any   *)
(* list of tokens; the scanner ends its lists with Eof.                    *)
(***************************************************************************)
\* the kinds of token the lists are made of
TokenTypes ==
    {"Semicolon", "Identifier", "Number", "LeftParen", "RightParen",
     "LeftBrace", "Minus", "Equal", "Var", "Fun", "Print", "Class"}

\* a token of a kind, as the scanner makes it
TokenOf(type_) ==
    CASE type_ = "Semicolon"  -> Token(type_, ";", NoLiteral, 1)
      [] type_ = "Identifier" -> Token(type_, "a", NoLiteral, 1)
      [] type_ = "Number"     -> Token(type_, "1", LNumber(1), 1)
      [] type_ = "LeftParen"  -> Token(type_, "(", NoLiteral, 1)
      [] type_ = "RightParen" -> Token(type_, ")", NoLiteral, 1)
      [] type_ = "LeftBrace"  -> Token(type_, "{", NoLiteral, 1)
      [] type_ = "Minus"      -> Token(type_, "-", NoLiteral, 1)
      [] type_ = "Equal"      -> Token(type_, "=", NoLiteral, 1)
      [] type_ = "Var"        -> Token(type_, "var", NoLiteral, 1)
      [] type_ = "Fun"        -> Token(type_, "fun", NoLiteral, 1)
      [] type_ = "Print"      -> Token(type_, "print", NoLiteral, 1)
      [] type_ = "Class"      -> Token(type_, "class", NoLiteral, 1)
      [] type_ = "Eof"        -> Token(type_, "", NoLiteral, 1)

\* the lists of at most MaxTokens tokens, each ended by Eof
TokenLists ==
    UNION {{[i \in 1..(n + 1) |->
                TokenOf(IF i = n + 1 THEN "Eof" ELSE types[i])] :
            types \in [1..n -> TokenTypes]} : n \in 0..MaxTokens}

\* the lists the scanner makes of the programs of the sessions
ScannedLists ==
    {r.tokens : r \in {q \in {ScanTokens(ScannerNew(Source(name))) :
                                  name \in FileSources} : q.ok}}

\* the lexemes of the operators and of the punctuation between operands
OperatorLexemes ==
    {<<"-">>, <<"+">>, <<"/">>, <<"*">>, <<"!">>, <<"!", "=">>, <<"=">>,
     <<"=", "=">>, <<">">>, <<">", "=">>, <<"<">>, <<"<", "=">>,
     <<"a", "n", "d">>, <<"o", "r">>, <<",">>, <<".">>}

\* print !(1 - -2 * 3 / 4 + 5 > 6) == (7 >= 8) != (1 < 2) or 3 <= 4 and true;
AllOperators ==
    <<"p", "r", "i", "n", "t", " ", "!", "(", "1", " ", "-", " ", "-", "2",
      " ", "*", " ", "3", " ", "/", " ", "4", " ", "+", " ", "5", " ", ">",
      " ", "6", ")", " ", "=", "=", " ", "(", "7", " ", ">", "=", " ", "8",
      ")", " ", "!", "=", " ", "(", "1", " ", "<", " ", "2", ")", " ", "o",
      "r", " ", "3", " ", "<", "=", " ", "4", " ", "a", "n", "d", " ", "t",
      "r", "u", "e", ";">>

\* the lists of `1 op 1;`, of `op 1;` and of `1 op op 1;` for every lexeme,
\* and the list of AllOperators
OperatorLists ==
    {ScanTokens(ScannerNew(text)).tokens :
        text \in {AllOperators}
             \cup {<<"1", " ">> \o op \o <<" ", "1", ";">> :
                     op \in OperatorLexemes}
             \cup {op \o <<" ", "1", ";">> : op \in OperatorLexemes}
             \cup {<<"1", " ">> \o op \o <<" ">> \o op \o <<" ", "1", ";">> :
                     op \in OperatorLexemes}}

TokenInit ==
    /\ NoSession("tokens")
    /\ NoEnv
    /\ NoFront
    /\ NoMain
    /\ NoTokens

\* Parser::new(&tokens) with the cursor moved to at, then synchronize()
TokenSynchronize(tokens, at) ==
    /\ given = <<>>
    /\ given' = tokens
    /\ synced' = [ok |-> TRUE,
                  from |-> [ParserNew(tokens) EXCEPT !.current = at],
                  to |-> ParserSynchronize(
                             [ParserNew(tokens) EXCEPT !.current = at])]
    /\ UNCHANGED <<svars, evars, fvars, mvars>>

\* Parser::new(&tokens).parse()
TokenParse(tokens) ==
    /\ given = <<>>
    /\ given' = tokens
    /\ parsed' = ParserParse(ParserNew(tokens))
    /\ UNCHANGED <<input, scanned, synced, svars, evars, mvars>>

\* one parser is made, from any list
TokenNext ==
    /\ given = <<>>
    /\ \E tokens \in TokenLists \cup ScannedLists \cup OperatorLists :
           \/ TokenParse(tokens)
           \/ \E at \in 0..(Len(tokens) - 2) : TokenSynchronize(tokens, at)

TokenSpec == TokenInit /\ [][TokenNext]_vars

(***************************************************************************)
(* MainSpec: the process started by main (main.rs).  main.rs declares its  *)
(* own LoxError and Lox and names no other module of src/.                 *)
(***************************************************************************)
\* LoxError::new, main.rs:22-30
MainLoxError(line, message) ==
    [line |-> line, where_s |-> "", message |-> message]

\* impl Display for LoxError, main.rs:32-40
MainLoxErrorToString(e) ==
    "[line " \o IntToString(e.line) \o "] Error" \o e.where_s \o ": "
    \o e.message

\* Lox::new, main.rs:49-51
MainLoxNew == [cur_line |-> 0]

\* Lox::run, main.rs:78-81: what it prints and the Result it returns.  What
\* is printed is kept as the pieces it is formatted from.
MainLoxRun(lox, source) ==
    [ok |-> FALSE, printed |-> << <<"Running ", source>> >>,
     error |-> MainLoxError(lox.cur_line, "Help!")]

\* the match on result in main, main.rs:95-101: what it prints and the
\* ExitCode
MainExit(result) ==
    IF result.ok THEN [printed |-> <<>>, code |-> 0]
    ELSE [printed |-> << <<MainLoxErrorToString(result.error)>> >>,
          code |-> 65]

\* the texts main is given: every short text and the programs of the session
MainTexts == FrontTexts \cup {Source(name) : name \in FileSources}

MainInit ==
    /\ NoSession("main")
    /\ NoEnv
    /\ NoFront
    /\ NoTokens
    /\ running = "start"
    /\ stdout = <<>>
    /\ exit_code = -1

\* main with a script argument: Lox::run_file, main.rs:53-56 and 88-101
MainRunFile(contents) ==
    /\ running = "start"
    /\ \E r \in {MainLoxRun(MainLoxNew, contents)} :
          /\ stdout' = stdout \o r.printed \o MainExit(r).printed
          /\ exit_code' = MainExit(r).code
    /\ input' = contents
    /\ running' = "exited"
    /\ UNCHANGED <<scanned, parsed, svars, evars, tvars>>

\* main without argument: Lox::run_prompt up to the first read,
\* main.rs:58-64
MainStartPrompt ==
    /\ running = "start"
    /\ running' = "prompt"
    /\ stdout' = stdout \o << <<"interactive mode">>, <<"> ">> >>
    /\ UNCHANGED <<exit_code, fvars, svars, evars, tvars>>

\* one turn of the loop of Lox::run_prompt on a line that was read,
\* main.rs:66-68 and 72-73: the ? returns the Err of run to main
MainPromptLine(line) ==
    /\ running = "prompt"
    /\ \E r \in {MainLoxRun(MainLoxNew, line)} :
          IF r.ok
          THEN /\ stdout' = stdout \o r.printed \o << <<"> ">> >>
               /\ UNCHANGED <<running, exit_code>>
          ELSE /\ stdout' = stdout \o r.printed \o MainExit(r).printed
               /\ exit_code' = MainExit(r).code
               /\ running' = "exited"
    /\ input' = line
    /\ UNCHANGED <<scanned, parsed, svars, evars, tvars>>

\* the end of standard input, or a line that cannot be read (the break of
\* main.rs:69-71): run_prompt returns Ok(())
MainPromptEof ==
    /\ running = "prompt"
    /\ running' = "exited"
    /\ exit_code' = MainExit([ok |-> TRUE]).code
    /\ UNCHANGED <<stdout, fvars, svars, evars, tvars>>

MainNext ==
    \/ \E contents \in MainTexts : MainRunFile(contents)
    \/ MainStartPrompt
    \/ \E line \in MainTexts : MainPromptLine(line)
    \/ MainPromptEof

MainSpec == MainInit /\ [][MainNext]_vars

(***************************************************************************)
(* Properties                                                              *)
(***************************************************************************)
Events(ev) == {i \in 1..Len(trace) : trace[i].ev = ev}

Range(seq) == {seq[i] : i \in 1..Len(seq)}

\* the innermost node of the chain from node that binds name, or 0
Owner(h, node, name) ==
    LET c == Chain(h, node)
        I == {i \in 1..Len(c) : name \in DOMAIN h[c[i]].values}
    IN IF I = {} THEN 0 ELSE c[CHOOSE i \in I : \A j \in I : i <= j]

\* C1: whenever execute, execute_block or Function::call returns, with Ok,
\* with a RuntimeError or with a Return signal and at any nesting depth, the
\* interpreter's current environment is the node that was current when the
\* statement, block or call began; so it is always the session's top scope
\* between runs.
EnvironmentRestored ==
    /\ \A i \in 1..Len(trace) :
           trace[i].ev \in {"execute", "execute_block", "call"}
               => trace[i].after = trace[i].before
    /\ mode \in {"start", "repl", "exited", "panicked"}
           => environment = InterpreterNew.environment

\* a run in which a block nested in a call was left by a Return signal,
\* another by a RuntimeError and another normally
EnvironmentRestoredWitness ==
    /\ \E i \in Events("execute_block") :
           trace[i].outcome = "return" /\ Len(trace[i].chain) >= 4
    /\ \E i \in Events("execute_block") :
           trace[i].outcome = "runtime" /\ Len(trace[i].chain) >= 4
    /\ \E i \in Events("execute_block") : trace[i].outcome = "ok"
    /\ \E i \in Events("call") : trace[i].result.kind = "runtime"

\* the function bound to c in the chain of env, when c is a counter made by
\* make(): a closure over a scope that binds i to a number
Counter(h, env) == EnvironmentGet(h, env, Name("c"))
HasCounter(h, env) ==
    /\ Counter(h, env).ok
    /\ Counter(h, env).value.t = "fun"
    /\ "i" \in DOMAIN h[Counter(h, env).value.closure].values
    /\ h[Counter(h, env).value.closure].values["i"].t = "num"
CounterValue(h, env) == h[Counter(h, env).value.closure].values["i"].n

\* C2: a function made inside a call keeps reading and writing the
\* variables of its defining scope after that scope was popped: a call of
\* the counter closure c prints one more than the i its defining scope
\* held before the call and leaves that value in the scope, in the same
\* run (1 then 2) and in a later input.
ClosureKeepsScope ==
    [][/\ (last'.source = "counter" /\ mode' = "exited")
              => out' = <<"1", "2">> /\ last'.kind = "ok"
       /\ (/\ last'.source = "tick"
           /\ nlines' = nlines + 1
           /\ HasCounter(heap, environment))
              => /\ last'.kind = "ok"
                 /\ out' = <<IntToString(CounterValue(heap, environment) + 1)>>
                 /\ HasCounter(heap', environment')
                 /\ CounterValue(heap', environment')
                        = CounterValue(heap, environment) + 1
                 /\ Counter(heap, environment).value.closure
                        \notin Range(Chain(heap, environment))]_vars

\* the counter was called twice after make() returned and its scope was
\* popped
ClosureKeepsScopeWitness ==
    /\ last.source = "counter"
    /\ out = <<"1", "2">>
    /\ HasCounter(heap, environment)
    /\ CounterValue(heap, environment) = 2
    /\ Counter(heap, environment).value.closure
           \notin Range(Chain(heap, environment))

\* C3: Function::call turns a Return signal of its body into its result, a
\* body that ends without Return into Nil, and passes a RuntimeError on
\* unchanged; its result is never a Return signal, so the statement that
\* made the call does not see one.
ReturnCaughtAtCall ==
    /\ \A i \in Events("call") :
         LET e == trace[i]
         IN /\ e.body.kind = "return"
                => e.result.kind = "ok" /\ e.result.value = e.body.value
            /\ e.body.kind = "ok"
                => e.result.kind = "ok" /\ e.result.value = LNone
            /\ e.body.kind = "runtime"
                => e.result.kind = "runtime" /\ e.result.error = e.body.error
            /\ e.result.kind # "return"
    /\ \A i \in Events("execute") :
           trace[i].stmt \in {"Expression", "Print", "Var"}
               => trace[i].outcome # "return"

\* a call that returned a value inside a call that went on and returned
\* another, and a call whose body ended without Return
ReturnCaughtAtCallWitness ==
    /\ \E i, j \in Events("call") :
           /\ i < j
           /\ trace[i].before = trace[j].scope + 1
           /\ trace[i].body.kind = "return"
           /\ trace[j].body.kind = "return"
           /\ trace[i].body.value # trace[j].body.value
    /\ \E i \in Events("call") : trace[i].body.kind = "ok"
    /\ out = <<"1", "2", "nil">>

\* C4: a user function call makes a new scope that encloses the function's
\* closure, binds each parameter to the argument at its position there and
\* runs the body in a scope whose chain goes through it to the closure, not
\* through the caller's environment; a variable only the caller's scope
\* binds is undefined in the body.
LexicalScope ==
    /\ \A i \in Events("call") :
         LET e == trace[i]
         IN /\ e.scope > e.nodes
            /\ e.enclosing = e.closure
            /\ DOMAIN e.bound = {e.params[k].lexeme : k \in 1..Len(e.params)}
            /\ \A k \in 1..Len(e.params) :
                   (\A m \in (k + 1)..Len(e.params) :
                        e.params[m].lexeme # e.params[k].lexeme)
                       => e.bound[e.params[k].lexeme] = e.arguments[k]
            /\ i > 1
            /\ trace[i - 1].ev = "execute_block"
            /\ trace[i - 1].parent = e.scope
            /\ trace[i - 1].chain
                   = <<trace[i - 1].scope, e.scope>> \o Chain(heap, e.closure)
    /\ (last.source = "lexical" /\ mode \in {"exited", "repl"})
           => /\ out = <<"2">>
              /\ last.kind = "runtime"
              /\ last.error.message = "Undefined variable 'y'."

\* a call with a parameter, made from a scope that is not on the chain of
\* the function's closure and that binds a name the body reads
LexicalScopeWitness ==
    /\ last.source = "lexical"
    /\ \E i \in Events("call") : Len(trace[i].params) = 1
    /\ \E i \in Events("call") :
           /\ trace[i].before \notin Range(Chain(heap, trace[i].closure))
           /\ "y" \in DOMAIN heap[trace[i].before].values
           /\ trace[i].result.kind = "runtime"

\* C5: environment nodes are shared: at any time, a clone of a handle (as
\* held by a closure) reads every name as the handle it was cloned from
\* does, and a scope made by from_env reads every name it does not bind
\* itself as the handle it was made from does, whichever handle the defines
\* and assigns went through.
NodesShared ==
    \A i \in 1..Len(holders) :
        /\ origin[i].how = "clone" =>
             \A name \in EnvNames :
                 EnvironmentGet(eheap, holders[i], Name(name))
                     = EnvironmentGet(eheap, holders[origin[i].of], Name(name))
        /\ origin[i].how = "from_env" =>
             \A name \in EnvNames \ DOMAIN eheap[holders[i]].values :
                 EnvironmentGet(eheap, holders[i], Name(name))
                     = EnvironmentGet(eheap, holders[origin[i].of], Name(name))

\* a define or assign went through a handle that has a clone and a child
\* scope, after they were made, and changed what the handle reads
NodesSharedWitness ==
    /\ lastOp.op \in {"define", "assign"}
    /\ lastOp.ok
    /\ \E i, j \in 1..Len(holders) :
           /\ origin[i].how = "clone" /\ origin[i].of = lastOp.holder
           /\ origin[j].how = "from_env" /\ origin[j].of = lastOp.holder
           /\ lastOp.name \notin DOMAIN eheap[holders[j]].values
    /\ EnvironmentGet(lastOp.pre, holders[lastOp.holder], Name(lastOp.name))
           # EnvironmentGet(eheap, holders[lastOp.holder], Name(lastOp.name))

\* C6: get returns the value bound to the name in the innermost scope of
\* the chain that binds it, fails with "Undefined variable '<name>'." if and
\* only if no scope of the chain binds it, and changes no scope.
GetFindsInnermost ==
    lastOp.op = "get" =>
        LET o == Owner(eheap, holders[lastOp.holder], lastOp.name)
        IN /\ eheap = lastOp.pre
           /\ lastOp.ok <=> o # 0
           /\ o # 0 => lastOp.result = eheap[o].values[lastOp.name]
           /\ o = 0 => lastOp.error.message
                           = "Undefined variable '" \o lastOp.name \o "'."

\* a get of a name that two scopes of the chain bind to different values
GetFindsInnermostWitness ==
    /\ lastOp.op = "get"
    /\ lastOp.ok
    /\ \E n \in Range(Chain(eheap, holders[lastOp.holder])) :
           /\ lastOp.name \in DOMAIN eheap[n].values
           /\ eheap[n].values[lastOp.name] # lastOp.result

\* C7: assign updates the binding in the innermost scope of the chain that
\* binds the name and changes nothing else; it never adds a binding to any
\* scope; when no scope binds the name it fails with "Undefined variable
\* '<name>'." and leaves every scope as it was.
AssignUpdatesOwner ==
    lastOp.op = "assign" =>
        LET o == Owner(lastOp.pre, holders[lastOp.holder], lastOp.name)
        IN /\ lastOp.ok <=> o # 0
           /\ o # 0 => eheap = [lastOp.pre EXCEPT
                                   ![o].values[lastOp.name] = lastOp.value]
           /\ o = 0 => /\ eheap = lastOp.pre
                       /\ lastOp.error.message
                              = "Undefined variable '" \o lastOp.name \o "'."
           /\ \A n \in 1..Len(eheap) :
                  DOMAIN eheap[n].values = DOMAIN lastOp.pre[n].values

\* an assign through an inner scope that changed the value an enclosing
\* scope binds
AssignUpdatesOwnerWitness ==
    /\ lastOp.op = "assign"
    /\ lastOp.ok
    /\ Owner(lastOp.pre, holders[lastOp.holder], lastOp.name)
           # holders[lastOp.holder]
    /\ eheap # lastOp.pre

\* C8: a var statement binds the name in the current scope only,
\* overwriting a binding the scope already has, and leaves every other
\* binding of every scope unchanged; a var in a block with the name of an
\* outer variable shadows it in the block, and the outer variable has its
\* old value after the block.
DefineInCurrentScopeOnly ==
    /\ \A i \in Events("var") :
         LET e == trace[i]
         IN /\ Len(e.post) = Len(e.pre)
            /\ \A n \in 1..Len(e.pre) :
                   /\ e.post[n].enclosing = e.pre[n].enclosing
                   /\ DOMAIN e.post[n].values
                          = DOMAIN e.pre[n].values
                                \cup (IF n = e.environment THEN {e.name} ELSE {})
                   /\ \A k \in DOMAIN e.pre[n].values :
                          (n # e.environment \/ k # e.name)
                              => e.post[n].values[k] = e.pre[n].values[k]
            /\ e.post[e.environment].values[e.name] = e.value
    /\ (last.source = "shadow" /\ last.kind # "none")
           => /\ out = <<"2", "1">>
              /\ heap[environment].values["a"] = LNumber(1)

\* a var in a block whose name an enclosing scope binds, with the outer
\* value printed after the block
DefineInCurrentScopeOnlyWitness ==
    /\ last.source = "shadow"
    /\ out = <<"2", "1">>
    /\ \E i \in Events("var") :
           /\ trace[i].name \notin DOMAIN trace[i].pre[trace[i].environment].values
           /\ Owner(trace[i].pre, trace[i].environment, trace[i].name) # 0

\* C9: when scanning or parsing an input reports an error, no statement of
\* the input is executed, the ones before the error included: nothing is
\* printed, the evaluator does nothing, and the environments are as before.
NoExecutionOnSyntaxError ==
    [][(last'.kind \in {"scanner", "parser"} /\ nlines' = nlines + 1)
           => /\ heap' = heap
              /\ environment' = environment
              /\ out' = <<>>
              /\ trace' = <<>>]_vars

\* an input whose first statement assigns a variable that is bound, and
\* whose second statement does not parse
NoExecutionOnSyntaxErrorWitness ==
    /\ last.source = "parse_err"
    /\ last.kind = "parser"
    /\ Owner(heap, environment, "a") # 0

\* the ParserErrors of a parse that, on each error, calls synchronize and
\* goes on with the next declaration
RECURSIVE SynchronizedErrors(_, _)
SynchronizedErrors(p, errors) ==
    IF ParserIsAtEnd(p) THEN errors
    ELSE LET d == ParserDeclaration(p)
         IN IF d.ok THEN SynchronizedErrors(d.p, errors)
            ELSE SynchronizedErrors(ParserSynchronize(d.p),
                                    Append(errors, d.error))

\* C10: after a ParserError the parser synchronizes and goes on with the
\* next declaration, so every statement with a syntax error gets its own
\* report: the diagnostics of an input that does not parse are the errors
\* of the synchronizing parse, one line each.
EveryParserErrorReported ==
    (mode = "repl" /\ last.kind = "parser") =>
        LET errors == SynchronizedErrors(
                          ParserNew(ScanTokens(ScannerNew(Source(last.source))).tokens),
                          <<>>)
        IN diag = [i \in 1..Len(errors) |-> ParserErrorToString(errors[i])]

(***************************************************************************)
(* C11: after "Unexpected character." the scanner goes on with the          *)
(* characters that follow.  Stated as: a scan that ended with this error   *)
(* has consumed the whole text.  scan_tokens returns the error of          *)
(* scan_token at once (the ? of scanner.rs:49), so the characters after    *)
(* the first bad one are never looked at.                                  *)
(***************************************************************************)
ScanningContinues ==
    (scanned # NoResult /\ ~scanned.ok
        /\ scanned.error.message = "Unexpected character.")
    => ScannerIsAtEnd(scanned.s)

(***************************************************************************)
(* C12: the REPL goes on after a line that fails, and only the end of      *)
(* input ends it, successfully.  Stated for the REPL main starts: a step   *)
(* that leaves the prompt runs no line and gives exit code 0.  The ? of    *)
(* main.rs:68 returns the Err of the first line to main instead.           *)
(***************************************************************************)
ReplEndsOnlyAtEndOfInput ==
    [][(running = "prompt" /\ running' = "exited")
        => (exit_code' = 0 /\ stdout' = stdout)]_vars

(***************************************************************************)
(* C13: the exit code is 0 on success, 65 after a ScannerError or a        *)
(* ParserError and 70 after a RuntimeError.  Stated for a script: the exit *)
(* code main gives is the one the outcome of the program asks for, the     *)
(* outcome being that of Lox::run of lox.rs on a new interpreter.  main    *)
(* gives 65 for every Err and its own Lox::run returns nothing else.       *)
(***************************************************************************)
Outcome(source) ==
    LoxRun([heap |-> InterpreterNew.heap,
            environment |-> InterpreterNew.environment, out |-> <<>>,
            trace |-> <<>>, fuel |-> MaxFuel, clock |-> 1], source).kind

ExitCodeByOutcome ==
    [][(running = "start" /\ running' = "exited")
        => /\ Outcome(input') = "ok" => exit_code' = 0
           /\ Outcome(input') \in {"scanner", "parser"} => exit_code' = 65
           /\ Outcome(input') = "runtime" => exit_code' = 70]_vars

(***************************************************************************)
(* C14: a call evaluates the callee, then the arguments from left to       *)
(* right, and only then checks the callee.  In not_callable the callee     *)
(* appends "c" to t and the two arguments append "a" and "b"; in arity the *)
(* arguments do the same and the body of f would append "x".  The run ends *)
(* with the RuntimeError of the check at the closing parenthesis, t holds  *)
(* what the callee and every argument appended, in this order, and no      *)
(* Function::call took place.                                              *)
(***************************************************************************)
Global(lexeme) == EnvironmentGet(heap, environment, Name(lexeme))

CallChecksAfterArguments ==
    /\ last.source = "not_callable" =>
         /\ last.kind = "runtime"
         /\ last.error.message = "Can only call functions and classes."
         /\ last.error.token.type_ = "RightParen"
         /\ Global("t").value = LString("cab")
         /\ Events("call") = {}
    /\ last.source = "arity" =>
         /\ last.kind = "runtime"
         /\ last.error.message = "Expected 1 arguments but got 2."
         /\ last.error.token.type_ = "RightParen"
         /\ Global("t").value = LString("ab")
         /\ Events("call") = {}

CallChecksAfterArgumentsWitness ==
    /\ last.source = "not_callable"
    /\ last.kind = "runtime"
    /\ Global("t").value = LString("cab")

(***************************************************************************)
(* C15: and and or short-circuit and give the value of an operand.  In     *)
(* logic each right operand adds to n when it is evaluated: 1 or ..        *)
(* prints 1 and leaves n alone, nil or .. evaluates the right operand once *)
(* and prints its value 10, nil and .. prints nil and leaves n alone,      *)
(* "s" and .. evaluates the right operand once and prints its value 1010,  *)
(* false or false prints false; n ends as 1010.                            *)
(***************************************************************************)
ShortCircuit ==
    last.source = "logic" =>
        /\ last.kind = "ok"
        /\ out = <<"1", "10", "nil", "1010", "false", "1010">>

ShortCircuitWitness ==
    /\ last.source = "logic"
    /\ last.kind = "ok"
    /\ Len(out) = 6

(***************************************************************************)
(* C16: the lowering of for, for every combination of an initializer (a    *)
(* var declaration, an expression statement or none), a condition and an   *)
(* increment.  In the programs ForProgram the initializer appends "s" to   *)
(* t, the condition "c", the body "b" and the increment "n", and the loop  *)
(* makes two rounds and leaves in the third.  So t tells the order: the    *)
(* initializer once and first, the condition before every round, the       *)
(* increment after the body in every round.  After the loop i is printed:  *)
(* a variable that the initializer declared is undefined there.  The       *)
(* statement the parser built is While(condition or Literal(true), body),  *)
(* the body in Block[body, Expression(increment)] when there is an         *)
(* increment, the whole in Block[initializer, While] when there is an      *)
(* initializer.                                                            *)
(***************************************************************************)
ForInits == {"var", "expr", "none"}

ForName(init, cond, inc) ==
    "for_" \o init \o "_" \o (IF cond THEN "c" ELSE "-")
    \o (IF inc THEN "n" ELSE "-")

\* what t holds after the loop
ForOrder(init, cond, inc) ==
    LET round == (IF cond THEN "c" ELSE "") \o "b" \o (IF inc THEN "n" ELSE "")
    IN (IF init = "none" THEN "" ELSE "s") \o round \o round
       \o (IF cond THEN "c" ELSE "b")

\* the statements Lox::run parsed from a source of the pool
Statements(name) ==
    ParserParse(ParserNew(ScanTokens(ScannerNew(Source(name))).tokens)).statements

\* the for statement of ForProgram(init, cond, inc) among them
ForStatement(init, cond, inc) ==
    LET at == IF init = "var" THEN 2 ELSE 3
        statements == Statements(ForName(init, cond, inc))
    IN IF cond THEN statements[at] ELSE statements[at].body[1]

ForLowered(stmt, init, cond, inc) ==
    LET loop == IF init = "none" THEN stmt ELSE stmt.statements[2]
        body == IF inc THEN loop.body.statements[1] ELSE loop.body
    IN /\ init # "none" =>
            /\ stmt.k = "Block"
            /\ Len(stmt.statements) = 2
            /\ stmt.statements[1].k
                   = (IF init = "var" THEN "Var" ELSE "Expression")
       /\ loop.k = "While"
       /\ ~cond => loop.condition = ExprLiteral(LBool(TRUE))
       /\ cond => loop.condition.k = "Logical"
       /\ inc =>
            /\ loop.body.k = "Block"
            /\ Len(loop.body.statements) = 2
            /\ loop.body.statements[2].k = "Expression"
            /\ loop.body.statements[2].expression.k = "Assign"
            /\ loop.body.statements[2].expression.value.k = "Logical"
       /\ body.k = "Block"
       /\ Len(body.statements) = (IF cond THEN 1 ELSE 2) + (IF inc THEN 0 ELSE 1)
       /\ body.statements[1].k = "Expression"

ForIsLowered ==
    \A init \in ForInits, cond \in BOOLEAN, inc \in BOOLEAN :
        last.source = ForName(init, cond, inc) =>
            /\ ForLowered(ForStatement(init, cond, inc), init, cond, inc)
            /\ out[1] = ForOrder(init, cond, inc)
            /\ IF init = "var"
               THEN /\ last.kind = "runtime"
                    /\ last.error.message = "Undefined variable 'i'."
                    /\ Len(out) = 1
               ELSE /\ last.kind = "ok"
                    /\ out = <<ForOrder(init, cond, inc), "2">>

ForIsLoweredWitness ==
    /\ last.source = ForName("var", TRUE, TRUE)
    /\ last.kind = "runtime"
    /\ out = <<"scbncbnc">>

(***************************************************************************)
(* C17: a function declaration with 255 parameters and a call with 255     *)
(* arguments are parsed, to a Function statement with 255 params and to a  *)
(* Call expression with 255 arguments; with 256 of them the parser ends    *)
(* with a ParserError.                                                     *)
(***************************************************************************)
AtMost255 ==
    parsed # NoResult =>
        /\ input = FunctionText(255) =>
             /\ parsed.ok
             /\ parsed.statements[1].k = "Function"
             /\ Len(parsed.statements[1].params) = 255
        /\ input = CallText(255) =>
             /\ parsed.ok
             /\ parsed.statements[1].expression.k = "Call"
             /\ Len(parsed.statements[1].expression.arguments) = 255
        /\ input = FunctionText(256) =>
             /\ ~parsed.ok
             /\ parsed.error.message = "Can't have more than 255 parameters."
        /\ input = CallText(256) =>
             /\ ~parsed.ok
             /\ parsed.error.message = "Can't have more than 255 arguments."

AtMost255Witness ==
    /\ input = FunctionText(255)
    /\ parsed # NoResult
    /\ parsed.ok
    /\ Len(parsed.statements[1].params) = 255

(***************************************************************************)
(* C18: when a source is scanned without error, every token has a line of  *)
(* at least 1, the lines never decrease along the list, the last token is  *)
(* the only Eof, and the line of this Eof is the last line the scanner     *)
(* reached: 1 plus the number of line breaks of the source.                *)
(***************************************************************************)
LineBreaks(text) == Cardinality({i \in 1..Len(text) : text[i] = "\n"})

TokenLines ==
    (scanned # NoResult /\ scanned.ok) =>
        LET tokens == scanned.tokens
            n == Len(tokens)
        IN /\ n >= 1
           /\ \A i \in 1..n : tokens[i].line >= 1
           /\ \A i \in 1..(n - 1) : tokens[i].line <= tokens[i + 1].line
           /\ \A i \in 1..n : tokens[i].type_ = "Eof" <=> i = n
           /\ tokens[n].line = scanned.s.line
           /\ tokens[n].line = 1 + LineBreaks(input)

TokenLinesWitness ==
    /\ input = <<"a", "\n", "\n">>
    /\ scanned # NoResult
    /\ scanned.ok
    /\ Len(scanned.tokens) = 2
    /\ scanned.tokens[1].line = 1
    /\ scanned.tokens[2].line = 3

(***************************************************************************)
(* C19: a return inside nested blocks, ifs and whiles of a function body   *)
(* unwinds them all up to the call.  In a run that no Return signal left,  *)
(* what follows the execution of a Return statement, up to the end of the  *)
(* Function::call around it, is only the end of enclosing blocks, ifs and  *)
(* whiles, each ending with the Return signal and with its scope popped.   *)
(* In ret_nested the condition of the loop appends "c" to t and the        *)
(* statements after the return, one in each enclosing block, would append  *)
(* "x", "y", "z" and "w": the first round appends "z", the second returns, *)
(* so h() is 1 and t is "czc".                                             *)
(***************************************************************************)
ReturnUnwinds ==
    /\ last.kind # "return" =>
         \A i \in Events("execute") :
             trace[i].stmt = "Return" /\ trace[i].outcome = "return" =>
                 \E c \in Events("call") :
                     /\ c > i
                     /\ \A j \in (i + 1)..(c - 1) :
                            /\ trace[j].ev \in {"execute", "execute_block"}
                            /\ trace[j].outcome = "return"
                            /\ trace[j].after = trace[j].before
                            /\ trace[j].ev = "execute" =>
                                   trace[j].stmt \in {"Block", "If", "While"}
    /\ last.source = "ret_nested" =>
         /\ last.kind = "ok"
         /\ out = <<"1", "czc">>

\* the return of ret_nested left three blocks, an if, a while and the block
\* of the function body
ReturnUnwindsWitness ==
    /\ last.source = "ret_nested"
    /\ out = <<"1", "czc">>
    /\ \E i \in Events("execute"), c \in Events("call") :
           /\ trace[i].stmt = "Return"
           /\ c > i
           /\ Cardinality({j \in (i + 1)..(c - 1) :
                              trace[j].ev = "execute_block"}) = 4
           /\ \E j \in (i + 1)..(c - 1) :
                  trace[j].ev = "execute" /\ trace[j].stmt = "While"
           /\ \E j \in (i + 1)..(c - 1) :
                  trace[j].ev = "execute" /\ trace[j].stmt = "If"

(***************************************************************************)
(* C20: a fun declaration makes a Function whose closure is the            *)
(* environment current at the declaration and defines it under its name in *)
(* this same scope, so the body finds the function by its name.  Every     *)
(* declaration executed closes over the environment it was executed in;    *)
(* fact computes 3! with a function declared at top level; in rec_block f, *)
(* declared in a block, and in rec_fun g, declared in the body of o, count *)
(* k down from 2 by calling themselves until k < 1 is true; after the      *)
(* block f is not defined at top level.                                    *)
(***************************************************************************)
FunctionSeesItself ==
    /\ \A i \in Events("function") : trace[i].closure = trace[i].environment
    /\ last.source = "fact" => (last.kind = "ok" /\ out = <<"6">>)
    /\ last.source = "rec_block" =>
         /\ out = <<"true">>
         /\ last.kind = "runtime"
         /\ last.error.message = "Undefined variable 'f'."
         /\ \A i \in Events("function") :
                trace[i].environment # InterpreterNew.environment
    /\ last.source = "rec_fun" =>
         /\ out = <<"true">>
         /\ last.kind = "ok"
         /\ \E i \in Events("function") :
                /\ trace[i].name = "g"
                /\ trace[i].environment # InterpreterNew.environment

\* g, declared in the call of o, has called itself from its own body
FunctionSeesItselfWitness ==
    /\ last.source = "rec_fun"
    /\ out = <<"true">>
    /\ \E i \in Events("function") :
           /\ trace[i].name = "g"
           /\ trace[i].environment # InterpreterNew.environment
           /\ \E c \in Events("call") :
                  /\ trace[c].closure = trace[i].closure
                  /\ trace[c].enclosing = trace[i].closure
                  /\ Len(Chain(heap, trace[c].before)) >= 3

(***************************************************************************)
(* C21: a RuntimeError aborts the unit and leaves nothing of it behind.    *)
(* Stated for a line of the REPL that ends with a RuntimeError: the        *)
(* failing statement is the last thing the evaluator did, and every scope  *)
(* the next line can read holds the bindings it held before the line.      *)
(* interpret returns at the first error (the ? of interpreter.rs:271), but *)
(* nothing undoes what the statements before it did: after var a = 1; the  *)
(* line a = 7; print "a" + 1; a = 8; leaves a = 7.                         *)
(***************************************************************************)
NoPartialResults ==
    [][(mode = "repl" /\ nlines' = nlines + 1 /\ last'.kind = "runtime") =>
          /\ trace'[Len(trace')].ev = "execute"
          /\ trace'[Len(trace')].outcome = "runtime"
          /\ \A node \in Range(Chain(heap, environment)) :
                 heap'[node].values = heap[node].values]_vars

(***************************************************************************)
(* C22: entering a block allocates one scope, whose enclosing scope is the *)
(* one that was current before the block.  Stated on the record of every   *)
(* Block statement executed: the scope its statements ran in has the       *)
(* environment from before the statement as its enclosing node, and its    *)
(* chain is one node longer.  The arm Stmt::Block makes a scope with       *)
(* from_env (interpreter.rs:196) and hands it to execute_block, which      *)
(* makes another inside it (interpreter.rs:254): two nodes, the first      *)
(* between the block's scope and the scope from before.                    *)
(***************************************************************************)
BlockAllocatesOneScope ==
    \A i \in Events("execute") :
        trace[i].stmt = "Block" =>
            /\ trace[i - 1].ev = "execute_block"
            /\ heap[trace[i - 1].scope].enclosing = trace[i].before
            /\ Len(trace[i - 1].chain)
                   = Len(Chain(heap, trace[i].before)) + 1

(***************************************************************************)
(* C23: synchronize, started with the cursor before Eof, ends with the     *)
(* cursor just past a ; or at one of class fun var for if while print      *)
(* return or at Eof; it has consumed at least one token, the cursor is not *)
(* past Eof, and the token list is what it was.                            *)
(***************************************************************************)
StatementStarts ==
    {"Class", "Fun", "Var", "For", "If", "While", "Print", "Return"}

SynchronizeStops ==
    synced # NoResult =>
        LET from == synced.from
            to == synced.to
        IN /\ [to EXCEPT !.current = from.current] = from
           /\ to.current > from.current
           /\ to.current <= Len(given) - 1
           /\ \/ given[to.current].type_ = "Semicolon"
              \/ given[to.current + 1].type_ \in StatementStarts
              \/ given[to.current + 1].type_ = "Eof"

\* a synchronize that skipped two tokens and stopped at a var
SynchronizeStopsWitness ==
    /\ synced # NoResult
    /\ synced.from.current = 0
    /\ synced.to.current = 2
    /\ given[2].type_ # "Semicolon"
    /\ given[3].type_ = "Var"

(***************************************************************************)
(* C24: no Return signal arrives at the code that formats an error for the *)
(* user, also when return is executed outside any function, in a file or   *)
(* at the prompt: the unreachable!() of ReturnError's Display is never     *)
(* reached, so the session never panics.                                   *)
(***************************************************************************)
ReturnNeverFormatted ==
    /\ mode # "panicked"
    /\ (mode = "repl" /\ nlines > 0) => last.kind # "return"

(***************************************************************************)
(* C25: a closure is the scope node the declaration was executed in, and   *)
(* a call resolves names through that node as it is at the call; a var     *)
(* defined in that scope after the declaration is seen by later calls.  In *)
(* late_var f, declared in a block before the block's own a, returns the   *)
(* global a = 1 when called before var a = 2 and 2 when called after it.   *)
(***************************************************************************)
CallOf(i, c) ==
    /\ trace[c].closure = trace[i].closure
    /\ trace[c].enclosing = trace[i].closure

ClosureSeesLaterVar ==
    /\ \A i \in Events("function") : \A c \in Events("call") :
           CallOf(i, c) => heap[trace[c].scope].enclosing = trace[i].environment
    /\ last.source = "late_var" =>
         /\ last.kind = "ok"
         /\ out = <<"1", "2", "1">>
         /\ \A i \in Events("function") : \A c \in Events("call") :
                /\ CallOf(i, c)
                /\ trace[c].result.value =
                       IF \E v \in Events("var") :
                              /\ v < c
                              /\ trace[v].environment = trace[i].closure
                       THEN LNumber(2) ELSE LNumber(1)

\* f was called before and after the var of its defining scope, and the two
\* calls went through the same node
ClosureSeesLaterVarWitness ==
    /\ last.source = "late_var"
    /\ out = <<"1", "2", "1">>
    /\ \E i \in Events("function") : \E c, d \in Events("call") :
           \E v \in Events("var") :
               /\ i < c /\ c < v /\ v < d
               /\ CallOf(i, c) /\ CallOf(i, d)
               /\ trace[v].environment = trace[i].closure
               /\ trace[v].name = "a"
               /\ trace[c].result.value = LNumber(1)
               /\ trace[d].result.value = LNumber(2)
               /\ trace[i].environment # InterpreterNew.environment

(***************************************************************************)
(* C26: whatever list ending with Eof parse() is given, it reads no index  *)
(* outside the list: the cursor ends at or before the index of Eof, and as *)
(* it only grows it was never past it; every peek and every previous read  *)
(* an index of the list, previous with the cursor at 1 or more.  A parse   *)
(* that succeeds ends with the cursor at Eof, one that fails reports a     *)
(* token of the list.                                                      *)
(***************************************************************************)
ParseStaysInside ==
    (given # <<>> /\ parsed # NoResult) =>
        /\ parsed.p.tokens = given
        /\ parsed.p.inside
        /\ parsed.p.current \in 0..(Len(given) - 1)
        /\ parsed.ok => given[parsed.p.current + 1].type_ = "Eof"
        /\ ~parsed.ok =>
              parsed.error.token \in
                  {given[i] : i \in 1..(parsed.p.current + 1)}

\* a parse that read every token of its list and failed at Eof, and so
\* called previous and peek at the last indices
ParseStaysInsideWitness ==
    /\ given # <<>>
    /\ parsed # NoResult
    /\ ~parsed.ok
    /\ Len(given) >= 3
    /\ parsed.p.current = Len(given) - 1
    /\ parsed.error.token.type_ = "Eof"
    /\ given[1].type_ = "Var"

(***************************************************************************)
(* C27: every Binary node of a parsed program has an operator that the     *)
(* match of Expr::Binary has an arm for, every Logical node has or or and, *)
(* every Unary node has ! or -: no AST of the parser takes the evaluator   *)
(* to an unreachable!() arm.                                               *)
(***************************************************************************)
\* the <<variant, operator>> pairs of the nodes of an expression, of a
\* statement and of a list
RECURSIVE ExprOperators(_), StmtOperators(_), ListOperators(_, _)
ExprOperators(e) ==
    CASE e.k = "Assign" -> ExprOperators(e.value)
      [] e.k \in {"Binary", "Logical"} ->
           {<<e.k, e.operator.type_>>}
               \cup ExprOperators(e.left) \cup ExprOperators(e.right)
      [] e.k = "Call" ->
           ExprOperators(e.callee) \cup ListOperators(e.arguments, FALSE)
      [] e.k = "Grouping" -> ExprOperators(e.expression)
      [] e.k = "Unary" ->
           {<<e.k, e.operator.type_>>} \cup ExprOperators(e.right)
      [] OTHER -> {}

StmtOperators(s) ==
    CASE s.k = "Block" -> ListOperators(s.statements, TRUE)
      [] s.k \in {"Expression", "Print"} -> ExprOperators(s.expression)
      [] s.k = "Function" -> ListOperators(s.body, TRUE)
      [] s.k = "If" ->
           ExprOperators(s.condition) \cup StmtOperators(s.then_branch)
               \cup StmtOperators(s.else_branch)
      [] s.k = "Return" -> ExprOperators(s.value)
      [] s.k = "Var" -> ExprOperators(s.initializer)
      [] s.k = "While" ->
           ExprOperators(s.condition) \cup StmtOperators(s.body)
      [] OTHER -> {}

ListOperators(list, statements) ==
    UNION {IF statements THEN StmtOperators(list[i])
           ELSE ExprOperators(list[i]) : i \in 1..Len(list)}

OperatorsHandled ==
    (given # <<>> /\ parsed # NoResult /\ parsed.ok) =>
        \A node \in ListOperators(parsed.statements, TRUE) :
            /\ node[1] = "Binary" => node[2] \in BinaryOperators
            /\ node[1] = "Logical" => node[2] \in LogicalOperators
            /\ node[1] = "Unary" => node[2] \in UnaryOperators

\* AllOperators parsed: there is a node for every operator of the three
\* matches
OperatorsHandledWitness ==
    /\ given # <<>>
    /\ parsed # NoResult
    /\ parsed.ok
    /\ ListOperators(parsed.statements, TRUE) =
           {<<"Binary", type_>> : type_ \in BinaryOperators}
               \cup {<<"Logical", type_>> : type_ \in LogicalOperators}
               \cup {<<"Unary", type_>> : type_ \in UnaryOperators}

====
